---- MODULE Spec2Model ----
(***************************************************************************)
(* A model of xmldiff2: the Matcher of src/xmldiff2/match.py (match(),     *)
(* update_node, find_pos, align_children, diff()), the tree utilities of   *)
(* src/xmldiff2/utils.py and the annotating XMLFormatter of                *)
(* src/xmldiff/formatting.py.                                              *)
(*                                                                         *)
(* Representation.  An element is a node identifier: the nodes of the left *)
(* tree are 2, 4, .. in document order, the nodes of the right tree are    *)
(* -1, -2, .., the element that diff() creates for the right node -j is    *)
(* 2j - 1, and 0 is Python's None.  A tree is a record                     *)
(*   [kind, root, kids, lab]                                               *)
(* kids[n] being the list of children of n and lab[n] its tag, prefix,     *)
(* text, tail and attributes.  Strings are sequences of one-character      *)
(* strings; text None is the empty sequence (lxml never stores "").        *)
(* Ratios are exact fractions <<num, den>> in lowest terms.                *)
(***************************************************************************)
EXTENDS Integers, Sequences, FiniteSets, TLC

\* The largest number of elements of an input tree.
MaxNodes == 3

None == 0

-----------------------------------------------------------------------------
(* Generic helpers *)

Range(s) == {s[i] : i \in 1..Len(s)}

Max(a, b) == IF a >= b THEN a ELSE b

RECURSIVE GCD(_, _)
GCD(a, b) == IF b = 0 THEN a ELSE GCD(b, a % b)

\* A fraction in lowest terms; 0 is <<0, 1>>.
Frac(n, d) == IF n = 0 THEN <<0, 1>> ELSE <<n \div GCD(n, d), d \div GCD(n, d)>>

FracMul(p, q) == Frac(p[1] * q[1], p[2] * q[2])
FracLt(p, q) == p[1] * q[2] < q[1] * p[2]
FracGeq(p, q) == ~FracLt(p, q)
One == <<1, 1>>
Zero == <<0, 1>>

\* list.index(x): the first position (1-based) of x in s, 0 when absent.
IndexOf(s, x) ==
    IF x \in Range(s) THEN CHOOSE i \in 1..Len(s) : s[i] = x /\ \A j \in 1..(i-1) : s[j] # x
    ELSE 0

\* list.remove(x): s without its first occurrence of x.
RemoveFirst(s, x) ==
    LET i == IndexOf(s, x)
    IN IF i = 0 THEN s ELSE SubSeq(s, 1, i - 1) \o SubSeq(s, i + 1, Len(s))

\* list.insert(pos, x) with a 0-based pos; Python clamps pos to the length
\* and counts a negative pos from the end.
InsertAt(s, pos, x) ==
    LET p0 == IF pos < 0 THEN Max(0, Len(s) + pos) ELSE pos
        p == IF p0 > Len(s) THEN Len(s) ELSE p0
    IN SubSeq(s, 1, p) \o <<x>> \o SubSeq(s, p + 1, Len(s))

RECURSIVE Flatten(_)
Flatten(ss) == IF ss = <<>> THEN <<>> ELSE Head(ss) \o Flatten(Tail(ss))

\* All orderings of the finite set S, as sequences.
RECURSIVE Perms(_)
Perms(S) ==
    IF S = {} THEN {<<>>}
    ELSE UNION {{<<x>> \o p : p \in Perms(S \ {x})} : x \in S}

-----------------------------------------------------------------------------
(* Trees (lxml elements) *)

NoneTree == [kind |-> "none", root |-> None, kids |-> <<>>, lab |-> <<>>]
ObjectTree == [kind |-> "object", root |-> None, kids |-> <<>>, lab |-> <<>>]

IsElement(t) == t.kind = "element"

Nodes(t) == DOMAIN t.kids

\* node.getchildren()
getchildren(t, n) == t.kids[n]

\* node.getparent(): None for the root and for a node that is not in the tree.
getparent(t, n) ==
    IF \E p \in Nodes(t) : n \in Range(t.kids[p])
    THEN CHOOSE p \in Nodes(t) : n \in Range(t.kids[p])
    ELSE None

RECURSIVE post_order_traverse(_, _)
post_order_traverse(t, n) ==
    Flatten([i \in 1..Len(t.kids[n]) |-> post_order_traverse(t, t.kids[n][i])]) \o <<n>>

RECURSIVE breadth_first_recurse(_, _)
breadth_first_recurse(t, n) ==
    t.kids[n] \o
    Flatten([i \in 1..Len(t.kids[n]) |-> breadth_first_recurse(t, t.kids[n][i])])

breadth_first_traverse(t, n) == <<n>> \o breadth_first_recurse(t, n)

\* The nodes of the subtree below n, n included.
Subtree(t, n) == Range(post_order_traverse(t, n))

\* One step of an lxml path: the tag and the 1-based index among the
\* siblings of the same tag, or index 0 when the tag is unique among the
\* siblings (libxml2 then writes no predicate).
PathStep(t, n) ==
    LET sibs(p) == IF p = None THEN <<n>> ELSE t.kids[p]
        step(same) == <<t.lab[n].tag, IF Len(same) = 1 THEN 0 ELSE IndexOf(same, n)>>
    IN step(SelectSeq(sibs(getparent(t, n)), LAMBDA s : t.lab[s].tag = t.lab[n].tag))

\* tree.getpath(n): the steps from the root down to n.
RECURSIVE getpath(_, _)
getpath(t, n) ==
    LET above(p) == IF p = None THEN <<>> ELSE getpath(t, p)
    IN above(getparent(t, n)) \o <<PathStep(t, n)>>

\* The elements one XPath step selects among the children list sibs.
StepSelect(t, sibs, step) ==
    LET same == SelectSeq(sibs, LAMBDA s : t.lab[s].tag = step[1])
    IN IF step[2] = 0 THEN Range(same)
       ELSE IF step[2] <= Len(same) THEN {same[step[2]]} ELSE {}

\* node.xpath(path): the set of elements of t the path selects.
RECURSIVE XPathFrom(_, _, _)
XPathFrom(t, S, path) ==
    IF path = <<>> THEN S
    ELSE XPathFrom(t, UNION {StepSelect(t, t.kids[n], Head(path)) : n \in S}, Tail(path))

xpath(t, path) ==
    IF path = <<>> THEN {}
    ELSE XPathFrom(t, StepSelect(t, <<t.root>>, Head(path)), Tail(path))

-----------------------------------------------------------------------------
(* Strings *)

\* The characters of the model in code point order.
Alphabet == <<" ", ":", "A", "B", "d", "i", "k", "x", "y">>

CharOrd(c) == IndexOf(Alphabet, c)

\* a < b for Python strings (lexicographic by code point).
RECURSIVE StrLt(_, _)
StrLt(a, b) ==
    IF b = <<>> THEN FALSE
    ELSE IF a = <<>> THEN TRUE
    ELSE IF Head(a) = Head(b) THEN StrLt(Tail(a), Tail(b))
    ELSE CharOrd(Head(a)) < CharOrd(Head(b))

\* sorted(S) for a set of strings.
RECURSIVE SortedStrs(_)
SortedStrs(S) ==
    LET from(m) == <<m>> \o SortedStrs(S \ {m})
    IN IF S = {} THEN <<>>
       ELSE from(CHOOSE x \in S : \A y \in S \ {x} : StrLt(x, y))

\* str.strip()
RECURSIVE LStrip(_)
LStrip(s) == IF s # <<>> /\ Head(s) = " " THEN LStrip(Tail(s)) ELSE s

RECURSIVE RStrip(_)
RStrip(s) == IF s # <<>> /\ s[Len(s)] = " " THEN RStrip(SubSeq(s, 1, Len(s) - 1)) ELSE s

strip(s) == RStrip(LStrip(s))

\* sep.join(parts)
RECURSIVE join(_, _)
join(sep, parts) ==
    IF parts = <<>> THEN <<>>
    ELSE IF Len(parts) = 1 THEN parts[1]
    ELSE parts[1] \o sep \o join(sep, Tail(parts))

\* f without the key k (del f[k]); the empty mapping is always <<>>.
Restrict(f, S) == IF S = {} THEN <<>> ELSE [k \in S |-> f[k]]

\* f with f[k] = v (f[k] = v on a dict).
Assign(f, k, v) == [x \in (DOMAIN f) \cup {k} |-> IF x = k THEN v ELSE f[x]]

-----------------------------------------------------------------------------
(* difflib.SequenceMatcher.ratio(), without junk (strings under 200 chars) *)

\* a[i+1..i+k] = b[j+1..j+k]
BlockAt(a, b, i, j, k) == \A d \in 1..k : a[i + d] = b[j + d]

\* find_longest_match: the longest common block, the earliest in a and
\* then the earliest in b among the longest; <<0, 0, 0>> when there is none.
find_longest_match(a, b) ==
    LET blocks == {w \in (0..Len(a)) \X (0..Len(b)) \X (1..Len(a)) :
                      /\ w[1] + w[3] <= Len(a)
                      /\ w[2] + w[3] <= Len(b)
                      /\ BlockAt(a, b, w[1], w[2], w[3])}
        Better(u, w) == \/ u[3] > w[3]
                        \/ u[3] = w[3] /\ u[1] < w[1]
                        \/ u[3] = w[3] /\ u[1] = w[1] /\ u[2] < w[2]
    IN IF blocks = {} THEN <<0, 0, 0>>
       ELSE CHOOSE w \in blocks : \A u \in blocks \ {w} : Better(w, u)

\* The total size of get_matching_blocks().
RECURSIVE matching_size(_, _)
matching_size(a, b) ==
    LET around(w) ==
            IF w[3] = 0 THEN 0
            ELSE w[3] + matching_size(SubSeq(a, 1, w[1]), SubSeq(b, 1, w[2]))
                      + matching_size(SubSeq(a, w[1] + w[3] + 1, Len(a)),
                                      SubSeq(b, w[2] + w[3] + 1, Len(b)))
    IN IF a = <<>> \/ b = <<>> THEN 0 ELSE around(find_longest_match(a, b))

\* 2.0 * matches / length, and 1.0 for two empty strings.
ratio(a, b) ==
    IF Len(a) + Len(b) = 0 THEN One
    ELSE Frac(2 * matching_size(a, b), Len(a) + Len(b))

-----------------------------------------------------------------------------
(* Matcher: node similarity (match.py, node_text, leaf_ratio, child_ratio) *)

\* dict.get(k): None when k is not a key.
MapGet(m, k) == IF k \in DOMAIN m THEN m[k] ELSE None

\* node_text(node): the "name:value" of the sorted attributes, the stripped
\* text and the stripped tail, joined by single spaces.
node_text(t, n) ==
    LET items(keys) == [i \in 1..Len(keys) |-> keys[i] \o <<":">> \o t.lab[n].attrib[keys[i]]]
        text == IF t.lab[n].text # <<>> THEN <<strip(t.lab[n].text)>> ELSE <<>>
        tail == IF t.lab[n].tail # <<>> THEN <<strip(t.lab[n].tail)>> ELSE <<>>
    IN join(<<" ">>, items(SortedStrs(DOMAIN t.lab[n].attrib)) \o text \o tail)

\* The unique attributes that either node carries, in configuration order.
UniquePresent(uattrs, la, ra) ==
    SelectSeq(uattrs, LAMBDA a : a \in DOMAIN la \/ a \in DOMAIN ra)

\* leaf_ratio without the test of the unique attributes
leaf_ratio_text_only(uattrs, lt, l, rt, r) ==
    IF <<lt.lab[l].prefix, lt.lab[l].tag>> # <<rt.lab[r].prefix, rt.lab[r].tag>>
    THEN Zero
    ELSE ratio(node_text(lt, l), node_text(rt, r))

\* A leaf_ratio whose tag test looks at the tag alone.
leaf_ratio_tag_only(uattrs, lt, l, rt, r) ==
    IF lt.lab[l].tag # rt.lab[r].tag THEN Zero
    ELSE IF UniquePresent(uattrs, lt.lab[l].attrib, rt.lab[r].attrib) # <<>>
    THEN IF \E a \in {Head(UniquePresent(uattrs, lt.lab[l].attrib, rt.lab[r].attrib))} :
               /\ a \in DOMAIN lt.lab[l].attrib /\ a \in DOMAIN rt.lab[r].attrib
               /\ lt.lab[l].attrib[a] = rt.lab[r].attrib[a]
         THEN One ELSE Zero
    ELSE ratio(node_text(lt, l), node_text(rt, r))

\* leaf_ratio(left, right)
leaf_ratio(uattrs, lt, l, rt, r) ==
    LET la == lt.lab[l].attrib
        ra == rt.lab[r].attrib
        agree(a) == IF a \in DOMAIN la /\ a \in DOMAIN ra /\ la[a] = ra[a] THEN One ELSE Zero
        among(present) ==
            IF present # <<>> THEN agree(Head(present))
            ELSE ratio(node_text(lt, l), node_text(rt, r))
    IN IF <<lt.lab[l].prefix, lt.lab[l].tag>> # <<rt.lab[r].prefix, rt.lab[r].tag>>
       THEN Zero
       ELSE among(UniquePresent(uattrs, la, ra))

\* The counting loop of child_ratio: each left child whose partner is still
\* in right_children counts once and takes its partner out of the list.
RECURSIVE child_count(_, _, _)
child_count(l2r, left_children, right_children) ==
    IF left_children = <<>> THEN 0
    ELSE LET rchild == MapGet(l2r, Head(left_children))
         IN IF rchild # None /\ rchild \in Range(right_children)
            THEN 1 + child_count(l2r, Tail(left_children), RemoveFirst(right_children, rchild))
            ELSE child_count(l2r, Tail(left_children), right_children)

\* child_ratio(left, right)
child_ratio(l2r, lt, l, rt, r) ==
    LET left_children == getchildren(lt, l)
        right_children == getchildren(rt, r)
    IN IF left_children = <<>> /\ right_children = <<>> THEN One
       ELSE Frac(child_count(l2r, left_children, right_children),
                 Max(Len(left_children), Len(right_children)))

-----------------------------------------------------------------------------
(* Matcher.match() (match.py, lines 59..101) *)

\* The inner loop "for rnode in rnodes", from position i on; the value is
\* <<max_match, match_node>> when the loop ends or breaks.
RECURSIVE ScanRight(_, _, _, _, _, _, _, _, _, _)
ScanRight(f, uattrs, l2r, lt, lnode, rt, rnodes, i, max_match, match_node) ==
    LET step(rnode, match, samepath) ==
            LET node == IF FracLt(max_match, match) THEN rnode
                        ELSE IF match = max_match /\ FracGeq(match, f) /\ samepath THEN rnode
                        ELSE match_node
                best == IF FracLt(max_match, match) THEN match ELSE max_match
            IN IF match = One /\ samepath THEN <<best, node>>
               ELSE ScanRight(f, uattrs, l2r, lt, lnode, rt, rnodes, i + 1, best, node)
    IN IF i > Len(rnodes) THEN <<max_match, match_node>>
       ELSE step(rnodes[i],
                 FracMul(leaf_ratio(uattrs, lt, lnode, rt, rnodes[i]),
                         child_ratio(l2r, lt, lnode, rt, rnodes[i])),
                 getpath(lt, lnode) = getpath(rt, rnodes[i]))

\* append_match(lnode, rnode, max_match) on the record of the three caches.
append_match(st, lnode, rnode, max_match) ==
    [st EXCEPT !.matches = Append(@, <<lnode, rnode, max_match>>),
               !.l2rmap = Assign(@, lnode, rnode),
               !.r2lmap = Assign(@, rnode, lnode)]

\* The outer loop "for lnode in lnodes"; st holds matches, l2rmap, r2lmap
\* and the list rnodes of the right nodes still to be checked.
RECURSIVE MatchLoop(_, _, _, _, _, _)
MatchLoop(f, uattrs, lt, rt, lnodes, st) ==
    LET lnode == Head(lnodes)
        \* "if max_match >= self.F: self.append_match(...)"
        matched(max_match, match_node) ==
            IF FracGeq(max_match, f) THEN append_match(st, lnode, match_node, max_match) ELSE st
        \* "if match_node is not None: rnodes.remove(match_node)"
        checked(st1, match_node) ==
            IF match_node # None THEN [st1 EXCEPT !.rnodes = RemoveFirst(@, match_node)] ELSE st1
        step(res) == MatchLoop(f, uattrs, lt, rt, Tail(lnodes),
                               checked(matched(res[1], res[2]), res[2]))
    IN IF lnodes = <<>> THEN st
       ELSE step(ScanRight(f, uattrs, st.l2rmap, lt, lnode, rt, st.rnodes, 1, Zero, None))

\* The caches match() computes for two elements.
ComputeMatch(f, uattrs, lt, rt) ==
    MatchLoop(f, uattrs, lt, rt, post_order_traverse(lt, lt.root),
              [matches |-> <<>>, l2rmap |-> <<>>, r2lmap |-> <<>>,
               rnodes |-> post_order_traverse(rt, rt.root)])

-----------------------------------------------------------------------------
(* utils.longest_common_subsequence (Myers, one history per diagonal).     *)
(* eqfn is the set of the pairs <<x, y>> the equality predicate holds for; *)
(* positions are 0-based as in Python.                                     *)

\* The first loop: the length of the common prefix.
RECURSIVE TrimStart(_, _, _, _)
TrimStart(ls, rs, eqfn, start) ==
    IF start < Len(ls) /\ start < Len(rs) /\ <<ls[start + 1], rs[start + 1]>> \in eqfn
    THEN TrimStart(ls, rs, eqfn, start + 1)
    ELSE start

\* A second loop that does not stop at the items the first loop has trimmed.
RECURSIVE TrimEndOverlapping(_, _, _, _, _)
TrimEndOverlapping(ls, rs, eqfn, start, n) ==
    IF n < Len(ls) /\ n < Len(rs) /\ <<ls[Len(ls) - n], rs[Len(rs) - n]>> \in eqfn
    THEN TrimEndOverlapping(ls, rs, eqfn, start, n + 1)
    ELSE n

\* The second loop: how many trailing items are trimmed.
RECURSIVE TrimEnd(_, _, _, _, _)
TrimEnd(ls, rs, eqfn, start, n) ==
    IF start < Len(ls) - n /\ start < Len(rs) - n /\ <<ls[Len(ls) - n], rs[Len(rs) - n]>> \in eqfn
    THEN TrimEnd(ls, rs, eqfn, start, n + 1)
    ELSE n

\* The "while x < lmax and y < rmax and eqfn(left[x], right[y])" loop; the
\* value is <<x, history>> after the snake.
RECURSIVE Snake(_, _, _, _, _, _, _)
Snake(left, right, eqfn, start, x, y, history) ==
    IF x < Len(left) /\ y < Len(right) /\ <<left[x + 1], right[y + 1]>> \in eqfn
    THEN Snake(left, right, eqfn, start, x + 1, y + 1, Append(history, <<x + start, y + start>>))
    ELSE <<x, history>>

\* The loops over d and k, from the pair (d, k) on; furtherst maps a
\* diagonal to <<x, history>>.  The value is the history of the first path
\* that reaches the end of both sequences.
RECURSIVE MyersLoop(_, _, _, _, _, _, _)
MyersLoop(left, right, eqfn, start, d, k, furtherst) ==
    LET down == k = -d \/ (k # d /\ furtherst[k - 1][1] < furtherst[k + 1][1])
        from == IF down THEN furtherst[k + 1] ELSE furtherst[k - 1]
        x0 == IF down THEN from[1] ELSE from[1] + 1
        \* x = sn[1] and y = x - k after the snake
        after(sn) ==
            IF sn[1] >= Len(left) /\ sn[1] - k >= Len(right) THEN sn[2]
            ELSE MyersLoop(left, right, eqfn, start, d, k + 2,
                           Assign(furtherst, k, <<sn[1], sn[2]>>))
    IN IF d > Len(left) + Len(right) THEN <<>>
       ELSE IF k > d THEN MyersLoop(left, right, eqfn, start, d + 1, -(d + 1), furtherst)
       ELSE after(Snake(left, right, eqfn, start, x0, x0 - k, from[2]))

\* The list of index pairs (0-based) the function returns.
longest_common_subsequence(left_sequence, right_sequence, eqfn) ==
    LET lslen == Len(left_sequence)
        rslen == Len(right_sequence)
        \* start items are trimmed at the start and cut items at the end
        trimmed(start, cut) ==
            LET lend == lslen - cut
                rend == rslen - cut
                left == SubSeq(left_sequence, start + 1, lend)
                right == SubSeq(right_sequence, start + 1, rend)
            IN IF Len(left) + Len(right) = 0
               THEN [i \in 1..lslen |-> <<i - 1, i - 1>>]
               ELSE [i \in 1..start |-> <<i - 1, i - 1>>]
                    \o MyersLoop(left, right, eqfn, start, 0, 0, (1 :> <<0, <<>>>>))
                    \o [i \in 1..cut |-> <<lend + i - 1, rend + i - 1>>]
        from(start) == trimmed(start, TrimEnd(left_sequence, right_sequence, eqfn, start, 0))
    IN from(TrimStart(left_sequence, right_sequence, eqfn, 0))

-----------------------------------------------------------------------------
(* Edit operations: the tuples diff() yields.  A path string is a node     *)
(* path (see getpath) plus a suffix: none, "/text()" or "/@name".          *)

NodeSub == [kind |-> "node", name |-> <<>>]
TextSub == [kind |-> "text", name |-> <<>>]
AttrSub(k) == [kind |-> "attr", name |-> k]

NoPath == [path |-> <<>>, sub |-> NodeSub]
XP(path, sub) == [path |-> path, sub |-> sub]

\* ('insert', tag, target, pos)
InsertNodeOp(tag, target, pos) ==
    [verb |-> "insert", node |-> NoPath, target |-> XP(target, NodeSub),
     tag |-> tag, pos |-> pos, value |-> <<>>]
\* ('move', node, target, pos)
MoveNodeOp(node, target, pos) ==
    [verb |-> "move", node |-> XP(node, NodeSub), target |-> XP(target, NodeSub),
     tag |-> "", pos |-> pos, value |-> <<>>]
\* ('delete', node)
DeleteNodeOp(node) ==
    [verb |-> "delete", node |-> XP(node, NodeSub), target |-> NoPath,
     tag |-> "", pos |-> 0, value |-> <<>>]
\* ('update', node + '/text()', text): both for the text and, with the
\* path of the parent, for the tail
UpdateTextOp(node, text) ==
    [verb |-> "update", node |-> XP(node, TextSub), target |-> NoPath,
     tag |-> "", pos |-> 0, value |-> text]
\* ('update', node + '/@name', value)
UpdateAttribOp(node, name, value) ==
    [verb |-> "update", node |-> XP(node, AttrSub(name)), target |-> NoPath,
     tag |-> "", pos |-> 0, value |-> value]
\* ('move', node + '/@old', rightnode + '/@new', -1)
MoveAttribOp(node, old, target, new) ==
    [verb |-> "move", node |-> XP(node, AttrSub(old)), target |-> XP(target, AttrSub(new)),
     tag |-> "", pos |-> -1, value |-> <<>>]
\* ('insert', rightnode + '/@name', value)
InsertAttribOp(target, name, value) ==
    [verb |-> "insert", node |-> NoPath, target |-> XP(target, AttrSub(name)),
     tag |-> "", pos |-> 0, value |-> value]
\* ('delete', node + '/@name')
DeleteAttribOp(node, name) ==
    [verb |-> "delete", node |-> XP(node, AttrSub(name)), target |-> NoPath,
     tag |-> "", pos |-> 0, value |-> <<>>]

-----------------------------------------------------------------------------
(* A run of the generator: the left tree lt, the operations yielded so far *)
(* (ops), the left tree as it stood when each of them was yielded (at),    *)
(* the left node and the left target each of them is about (who), and the  *)
(* exception that ended the run (err, "" for none).                        *)

\* yield op, computed for the left node lnode and the left target ltarget
Yield(r, op, lnode, ltarget) ==
    IF r.err # "" THEN r
    ELSE [r EXCEPT !.ops = Append(@, op), !.at = Append(@, r.lt),
                   !.who = Append(@, [node |-> lnode, target |-> ltarget])]

Raise(r, e) == IF r.err # "" THEN r ELSE [r EXCEPT !.err = e]

\* left.text = v, left.tail = v and left.attrib = v on the run's left tree
SetText(r, n, v) == IF r.err # "" THEN r ELSE [r EXCEPT !.lt.lab[n].text = v]
SetTail(r, n, v) == IF r.err # "" THEN r ELSE [r EXCEPT !.lt.lab[n].tail = v]
SetAttrib(r, n, v) == IF r.err # "" THEN r ELSE [r EXCEPT !.lt.lab[n].attrib = v]

\* parent.remove(n): n and its subtree leave the tree.
RemoveNode(t, n) ==
    LET p == getparent(t, n)
        gone == Subtree(t, n)
        keep == Nodes(t) \ gone
    IN [t EXCEPT !.kids = [k \in keep |-> IF k = p THEN RemoveFirst(t.kids[k], n) ELSE t.kids[k]],
                 !.lab = [k \in keep |-> t.lab[k]]]

\* target.insert(pos, n) of a new element n with label lab.
InsertNew(t, target, pos, n, lab) ==
    [t EXCEPT !.kids = [k \in Nodes(t) \cup {n} |->
                            IF k = n THEN <<>>
                            ELSE IF k = target THEN InsertAt(t.kids[k], pos, n)
                            ELSE t.kids[k]],
              !.lab = (n :> lab) @@ t.lab]

\* A move that leaves the node where it is.
MoveToNowhere(t, n, target, pos) == t

\* lparent.remove(n); target.insert(pos, n): n moves with its subtree.
MoveTo(t, n, target, pos) ==
    LET p == getparent(t, n)
        k1 == [k \in Nodes(t) |-> IF k = p THEN RemoveFirst(t.kids[k], n) ELSE t.kids[k]]
    IN [t EXCEPT !.kids = [k \in Nodes(t) |-> IF k = target THEN InsertAt(k1[k], pos, n) ELSE k1[k]]]

-----------------------------------------------------------------------------
(* Matcher.update_node (match.py, lines 150..220) *)

\* "for key in sorted(commonattrs)"
RECURSIVE UpdateCommon(_, _, _, _, _)
UpdateCommon(r, left, rattrib, left_xpath, keys) ==
    IF keys = <<>> \/ r.err # "" THEN r
    ELSE LET key == Head(keys)
             la == r.lt.lab[left].attrib
             r1 == IF la[key] # rattrib[key]
                   THEN SetAttrib(Yield(r, UpdateAttribOp(left_xpath, key, rattrib[key]), left, None),
                                  left, Assign(la, key, rattrib[key]))
                   ELSE r
         IN UpdateCommon(r1, left, rattrib, left_xpath, Tail(keys))

\* newattrmap = {v: k for (k, v) in right.attrib.items() if k in newattrs}:
\* the last name wins among the new names of one value; an element lists
\* its attributes in the order of their names.
newattrmap(rattrib, newattrs) ==
    LET vals == {rattrib[k] : k \in newattrs}
    IN [v \in vals |->
          LET ks == SortedStrs({k \in newattrs : rattrib[k] = v}) IN ks[Len(ks)]]

\* "for lk in sorted(removedattrs)": st is the run and the set newattrs.
RECURSIVE RenameLoop(_, _, _, _, _, _)
RenameLoop(st, left, attrmap, left_xpath, right_xpath, keys) ==
    IF keys = <<>> \/ st.r.err # "" THEN st
    ELSE LET lk == Head(keys)
             la == st.r.lt.lab[left].attrib
             value == la[lk]
             st1 == IF value \in DOMAIN attrmap
                    THEN LET rk == attrmap[value]
                             r1 == Yield(st.r, MoveAttribOp(left_xpath, lk, right_xpath, rk), left, left)
                         IN IF rk \notin st.newattrs
                            THEN [st EXCEPT !.r = Raise(r1, "KeyError")]
                            ELSE [r |-> SetAttrib(r1, left,
                                          Restrict(Assign(la, rk, value),
                                                   ((DOMAIN la) \cup {rk}) \ {lk})),
                                  newattrs |-> st.newattrs \ {rk}]
                    ELSE st
         IN RenameLoop(st1, left, attrmap, left_xpath, right_xpath, Tail(keys))

\* "for key in sorted(newattrs)"
RECURSIVE InsertLoop(_, _, _, _, _)
InsertLoop(r, left, rattrib, right_xpath, keys) ==
    IF keys = <<>> \/ r.err # "" THEN r
    ELSE LET key == Head(keys)
             r1 == SetAttrib(Yield(r, InsertAttribOp(right_xpath, key, rattrib[key]), None, left),
                             left, Assign(r.lt.lab[left].attrib, key, rattrib[key]))
         IN InsertLoop(r1, left, rattrib, right_xpath, Tail(keys))

\* "for key in sorted(removedattrs)"
RECURSIVE DeleteLoop(_, _, _, _)
DeleteLoop(r, left, left_xpath, keys) ==
    IF keys = <<>> \/ r.err # "" THEN r
    ELSE LET key == Head(keys)
             la == r.lt.lab[left].attrib
             r1 == IF key \notin DOMAIN la THEN r
                   ELSE SetAttrib(Yield(r, DeleteAttribOp(left_xpath, key), left, None),
                                  left, Restrict(la, (DOMAIN la) \ {key}))
         IN DeleteLoop(r1, left, left_xpath, Tail(keys))

\* update_node(left, right) continuing the run r; rt is the right tree.
update_node(r, rt, left, right) ==
    LET rl == rt.lab[right]
        \* "if left.text != right.text"
        text(left_xpath) ==
            IF r.lt.lab[left].text # rl.text
            THEN SetText(Yield(r, UpdateTextOp(left_xpath, rl.text), left, None), left, rl.text)
            ELSE r
        \* "if left.tail != right.tail"
        tail(r1) ==
            IF r1.lt.lab[left].tail # rl.tail
            THEN IF getparent(r1.lt, left) = None THEN Raise(r1, "TypeError")
                 ELSE SetTail(Yield(r1, UpdateTextOp(getpath(r1.lt, getparent(r1.lt, left)),
                                                     rl.tail), left, None),
                              left, rl.tail)
            ELSE r1
        \* "for key in sorted(newattrs)" after the loop of the renames
        inserts(st4, right_xpath) ==
            InsertLoop(st4.r, left, rl.attrib, right_xpath, SortedStrs(st4.newattrs))
        \* the four loops over the attributes
        attrs(r2, left_xpath, right_xpath) ==
            LET left_keys == DOMAIN r2.lt.lab[left].attrib
                right_keys == DOMAIN rl.attrib
                newattrs == right_keys \ left_keys
                removedattrs == left_keys \ right_keys
                commonattrs == left_keys \cap right_keys
            IN DeleteLoop(
                   inserts(RenameLoop([r |-> UpdateCommon(r2, left, rl.attrib, left_xpath,
                                                         SortedStrs(commonattrs)),
                                       newattrs |-> newattrs],
                                      left, newattrmap(rl.attrib, newattrs), left_xpath,
                                      right_xpath, SortedStrs(removedattrs)),
                           right_xpath),
                   left, left_xpath, SortedStrs(removedattrs))
    IN attrs(tail(text(getpath(r.lt, left))), getpath(r.lt, left), getpath(rt, right))

-----------------------------------------------------------------------------
(* Matcher.find_pos (match.py, lines 222..250); the value is the position  *)
(* and the exception raised, if any.                                       *)

\* "while i >= 0": the nearest in-order sibling at 0-based index <= i,
\* or None.
RECURSIVE LastInorder(_, _, _)
LastInorder(sibs, inorder, i) ==
    IF i < 0 THEN None
    ELSE IF sibs[i + 1] \in inorder THEN sibs[i + 1]
    ELSE LastInorder(sibs, inorder, i - 1)

\* A find_pos that returns the place of the child among its right siblings.
find_pos_among_right(lt, rt, r2l, inorder, child) ==
    IF getparent(rt, child) = None THEN [pos |-> 0, err |-> "AttributeError"]
    ELSE [pos |-> IndexOf(getchildren(rt, getparent(rt, child)), child) - 1, err |-> ""]

find_pos(lt, rt, r2l, inorder, child) ==
    LET \* "return left_parent.index(left_sibling) + 1", 0-based
        behind(u, up) ==
            IF up = None THEN [pos |-> 0, err |-> "AttributeError"]
            ELSE [pos |-> IndexOf(lt.kids[up], u), err |-> ""]
        \* the nearest in-order sibling before the child
        after(sibling) ==
            IF sibling = None THEN [pos |-> 0, err |-> ""]
            ELSE IF sibling \notin DOMAIN r2l THEN [pos |-> 0, err |-> "KeyError"]
            ELSE behind(r2l[sibling], getparent(lt, r2l[sibling]))
        among(sibs, ins) ==
            IF ins # <<>> /\ Head(ins) = child THEN [pos |-> 0, err |-> ""]
            ELSE after(LastInorder(sibs, inorder, IndexOf(sibs, child) - 2))
        below(parent) ==
            IF parent = None THEN [pos |-> 0, err |-> "AttributeError"]
            ELSE among(getchildren(rt, parent),
                       SelectSeq(getchildren(rt, parent), LAMBDA x : x \in inorder))
    IN below(getparent(rt, child))

-----------------------------------------------------------------------------
(* Matcher.align_children (match.py, lines 252..279) *)

\* lchildren: the children of left whose partner is a child of right.
align_lchildren(lt, rt, l2r, left, right) ==
    SelectSeq(getchildren(lt, left),
              LAMBDA c : c \in DOMAIN l2r /\ l2r[c] # None /\ getparent(rt, l2r[c]) = right)

\* rchildren: the children of right whose partner is a child of left.
align_rchildren(lt, rt, r2l, left, right) ==
    SelectSeq(getchildren(rt, right),
              LAMBDA c : c \in DOMAIN r2l /\ getparent(lt, r2l[c]) = left)

\* self._l2rmap[id(c)].getparent() on a child matched with None.
align_raises(lt, l2r, left) ==
    \E c \in Range(getchildren(lt, left)) : c \in DOMAIN l2r /\ l2r[c] = None

\* The in-order set after the LCS of lchildren and rchildren is marked.
align_inorder(lt, rt, l2r, r2l, inorder, left, right) ==
    LET marked(lchildren, rchildren, lcs) ==
            inorder \cup {lchildren[lcs[i][1] + 1] : i \in 1..Len(lcs)}
                    \cup {rchildren[lcs[i][2] + 1] : i \in 1..Len(lcs)}
        \* eqfn: self._l2rmap[id(x)] is y
        aligned(lchildren, rchildren) ==
            IF align_raises(lt, l2r, left) \/ lchildren = <<>> \/ rchildren = <<>> THEN inorder
            ELSE marked(lchildren, rchildren,
                        longest_common_subsequence(lchildren, rchildren,
                                                   {<<x, l2r[x]>> : x \in DOMAIN l2r}))
    IN aligned(align_lchildren(lt, rt, l2r, left, right),
               align_rchildren(lt, rt, r2l, left, right))

\* set(lchildren) - self._inorder: the children that get a move.
align_unaligned(lt, rt, l2r, r2l, inorder, left, right) ==
    LET unaligned(lchildren, rchildren) ==
            IF align_raises(lt, l2r, left) \/ lchildren = <<>> \/ rchildren = <<>> THEN {}
            ELSE Range(lchildren) \ align_inorder(lt, rt, l2r, r2l, inorder, left, right)
    IN unaligned(align_lchildren(lt, rt, l2r, left, right),
                 align_rchildren(lt, rt, r2l, left, right))

\* "for unaligned_left in set(lchildren) - self._inorder", in the order the
\* set happens to iterate in (order); inorder is the set after the marking.
RECURSIVE AlignLoop(_, _, _, _, _, _, _)
AlignLoop(r, rt, l2r, r2l, inorder, right, order) ==
    LET unaligned_left == Head(order)
        moved(fp) ==
            IF fp.err # "" THEN Raise(r, fp.err)
            ELSE Yield(r, MoveNodeOp(getpath(r.lt, unaligned_left), getpath(rt, right), fp.pos),
                       unaligned_left, getparent(r.lt, unaligned_left))
    IN IF order = <<>> \/ r.err # "" THEN r
       ELSE AlignLoop(moved(find_pos(r.lt, rt, r2l, inorder, MapGet(l2r, unaligned_left))),
                      rt, l2r, r2l, inorder, right, Tail(order))

\* align_children(left, right) continuing the run r; order lists the
\* children to move.
align_children(r, rt, l2r, r2l, inorder, left, right, order) ==
    IF r.err # "" THEN r
    ELSE IF align_raises(r.lt, l2r, left) THEN Raise(r, "AttributeError")
    ELSE AlignLoop(r, rt, l2r, r2l,
                   align_inorder(r.lt, rt, l2r, r2l, inorder, left, right), right, order)

-----------------------------------------------------------------------------
(* Matcher.diff(), pass 1: the body of "for rnode in breadth_first_traverse"*)
(* up to the align step (match.py, lines 292..340).  c holds the run r and *)
(* the caches matches, l2rmap, r2lmap; the value adds lnode.               *)

\* ltarget.makeelement(rnode.tag): a new element with the tag only.
makeelement(rt, rnode) ==
    [tag |-> rt.lab[rnode].tag, prefix |-> rt.lab[rnode].prefix,
     text |-> <<>>, tail |-> <<>>, attrib |-> <<>>]

\* The identity of the element created for rnode: an odd number, where the
\* elements of a parsed left document have even ones.
NewNode(rnode) == -2 * rnode - 1

diff_insert(c, rt, inorder, rnode, ltarget) ==
    LET lnode == NewNode(rnode)
        failed(e) == [c EXCEPT !.r = Raise(@, e)] @@ [lnode |-> None]
        \* yield the insert, append_match, ltarget.insert(pos, lnode)
        inserted(pos) ==
            [Yield(c.r, InsertNodeOp(rt.lab[rnode].tag, getpath(c.r.lt, ltarget), pos),
                   None, ltarget)
             EXCEPT !.lt = InsertNew(@, ltarget, pos, lnode, makeelement(rt, rnode))]
        updated(r2) == [append_match(c, lnode, rnode, One) EXCEPT !.r = r2] @@ [lnode |-> lnode]
        insert(fp) ==
            IF fp.err # "" THEN failed(fp.err)
            ELSE IF ltarget = None THEN failed("TypeError")
            ELSE updated(update_node(inserted(fp.pos), rt, lnode, rnode))
    IN insert(find_pos(c.r.lt, rt, c.r2lmap, inorder, rnode))

diff_update_move(c, rt, inorder, rnode, ltarget) ==
    LET lnode == c.r2lmap[rnode]
        \* lparent.remove(lnode); ltarget.insert(pos, lnode)
        moved(y, lparent, pos) ==
            IF lparent = None THEN Raise(y, "AttributeError")
            ELSE [y EXCEPT !.lt = MoveTo(@, lnode, ltarget, pos)]
        \* "if ltarget is not lparent": the move of the updated node
        move(r1, fp, lparent) ==
            IF r1.err # "" \/ ltarget = lparent THEN r1
            ELSE IF fp.err # "" THEN Raise(r1, fp.err)
            ELSE IF ltarget = None THEN Raise(r1, "TypeError")
            ELSE moved(Yield(r1, MoveNodeOp(getpath(rt, rnode), getpath(r1.lt, ltarget), fp.pos),
                             lnode, ltarget),
                       lparent, fp.pos)
        updated(r1) == move(r1, find_pos(r1.lt, rt, c.r2lmap, inorder, rnode),
                            getparent(r1.lt, lnode))
    IN [c EXCEPT !.r = updated(update_node(c.r, rt, lnode, rnode))] @@ [lnode |-> lnode]

\* Steps (a) to (c) for rnode.
diff_visit(c, rt, inorder, rnode) ==
    IF rnode \notin DOMAIN c.r2lmap
    THEN diff_insert(c, rt, inorder, rnode, MapGet(c.r2lmap, getparent(rt, rnode)))
    ELSE diff_update_move(c, rt, inorder, rnode, MapGet(c.r2lmap, getparent(rt, rnode)))

\* Pass 2 with the test inverted: the matched nodes are deleted.
diff_delete_matched(r, l2r, lnode) ==
    IF lnode \notin DOMAIN l2r THEN r
    ELSE LET y == Yield(r, DeleteNodeOp(getpath(r.lt, lnode)), lnode, None)
         IN IF getparent(r.lt, lnode) = None THEN Raise(y, "AttributeError")
            ELSE [y EXCEPT !.lt = RemoveNode(@, lnode)]

\* The nodes pass 2 goes over, from the last of the post order to the first.
diff_delete_nodes_reversed(lt) ==
    [i \in 1..Cardinality(Subtree(lt, lt.root)) |->
        post_order_traverse(lt, lt.root)[Cardinality(Subtree(lt, lt.root)) + 1 - i]]

\* The nodes pass 2 goes over: utils.post_order_traverse(self.left)
\* (match.py, line 347).
diff_delete_nodes(lt) == post_order_traverse(lt, lt.root)

\* Pass 2, the body of "for lnode in post_order_traverse(self.left)"
\* (match.py, lines 347..351).
diff_delete(r, l2r, lnode) ==
    IF lnode \in DOMAIN l2r THEN r
    ELSE LET y == Yield(r, DeleteNodeOp(getpath(r.lt, lnode)), lnode, None)
         IN IF getparent(r.lt, lnode) = None THEN Raise(y, "AttributeError")
            ELSE [y EXCEPT !.lt = RemoveNode(@, lnode)]

-----------------------------------------------------------------------------
(* Input documents *)

Lab(tag, text, attrib) ==
    [tag |-> tag, prefix |-> "", text |-> text, tail |-> <<>>, attrib |-> attrib]

\* The preorder depth sequences of the ordered trees of n nodes.
Shapes(n) ==
    {d \in [1..n -> 0..(n - 1)] :
        /\ d[1] = 0
        /\ \A i \in 2..n : d[i] >= 1 /\ d[i] <= d[i - 1] + 1}

ShapeParent(d, i) ==
    CHOOSE j \in 1..(i - 1) : d[j] = d[i] - 1 /\ \A k \in (j + 1)..(i - 1) : d[k] >= d[i]

\* The parsed document of shape d and labels lb.  Its i-th element in
\* document order has the identity unit * i: unit is 2 for a left document
\* and -1 for a right document, so that the elements of the two documents
\* and the elements diff() creates are all distinct.
MkTree(d, lb, unit) ==
    LET n == Len(d)
        children(p) == SelectSeq([i \in 1..n |-> i], LAMBDA i : i > 1 /\ ShapeParent(d, i) = p)
        index(v) == CHOOSE i \in 1..n : unit * i = v
    IN [kind |-> "element", root |-> unit,
        kids |-> [v \in {unit * i : i \in 1..n} |->
                     [k \in 1..Len(children(index(v))) |-> unit * children(index(v))[k]]],
        lab |-> [v \in {unit * i : i \in 1..n} |-> lb[index(v)]]]

\* All documents of at most n elements labelled from Labels.
TreesOf(Labels, n, unit) ==
    UNION {{MkTree(d, lb, unit) : d \in Shapes(k), lb \in [1..k -> Labels]} : k \in 1..n}

\* The structure of the subtree at n, free of node identities.
RECURSIVE Struct(_, _)
Struct(t, n) ==
    [lab |-> t.lab[n], kids |-> [i \in 1..Len(t.kids[n]) |-> Struct(t, t.kids[n][i])]]

\* Structural equality of two elements' trees.
SameTree(t1, t2) ==
    /\ IsElement(t1) /\ IsElement(t2)
    /\ Struct(t1, t1.root) = Struct(t2, t2.root)

-----------------------------------------------------------------------------
(* Applying an edit script to a tree.  Each path is evaluated against the  *)
(* tree in the state reached just before the operation is applied, and has *)
(* to select exactly one element.                                          *)

FailedTree == [kind |-> "failed", root |-> None, kids |-> <<>>, lab |-> <<>>]

\* An identity no element of t has.
FreshNode(t) == (CHOOSE m \in Nodes(t) : \A x \in Nodes(t) : x <= m) + 1

\* The one element path selects, None when it selects none or several.
Resolve(t, path) ==
    LET S == xpath(t, path)
    IN IF Cardinality(S) = 1 THEN CHOOSE n \in S : TRUE ELSE None

\* One operation applied to the tree t: its paths are resolved in t, then
\* the element is inserted, moved, removed or changed.
ApplyOp(t, op) ==
    LET old == op.node.sub.name
        new == op.target.sub.name
        attrib(x) == t.lab[x].attrib
        apply(n, g) ==
            CASE op.verb = "insert" /\ op.target.sub.kind = "node" ->
                   IF g = None THEN FailedTree
                   ELSE InsertNew(t, g, op.pos, FreshNode(t),
                                  [tag |-> op.tag, prefix |-> "", text |-> <<>>,
                                   tail |-> <<>>, attrib |-> <<>>])
              [] op.verb = "insert" /\ op.target.sub.kind = "attr" ->
                   IF g = None THEN FailedTree
                   ELSE IF new \in DOMAIN attrib(g) THEN FailedTree
                   ELSE [t EXCEPT !.lab[g].attrib = Assign(@, new, op.value)]
              [] op.verb = "move" /\ op.node.sub.kind = "node" ->
                   IF n = None \/ g = None \/ n = t.root THEN FailedTree
                   ELSE IF g \in Subtree(t, n) THEN FailedTree
                   ELSE MoveTo(t, n, g, op.pos)
              [] op.verb = "move" /\ op.node.sub.kind = "attr" ->
                   IF n = None \/ g = None THEN FailedTree
                   ELSE IF old \notin DOMAIN attrib(n) THEN FailedTree
                   ELSE LET t1 == [t EXCEPT !.lab[n].attrib = Restrict(@, DOMAIN @ \ {old})]
                        IN [t1 EXCEPT !.lab[g].attrib = Assign(@, new, attrib(n)[old])]
              [] op.verb = "delete" /\ op.node.sub.kind = "node" ->
                   IF n = None \/ n = t.root THEN FailedTree ELSE RemoveNode(t, n)
              [] op.verb = "delete" /\ op.node.sub.kind = "attr" ->
                   IF n = None THEN FailedTree
                   ELSE IF old \notin DOMAIN attrib(n) THEN FailedTree
                   ELSE [t EXCEPT !.lab[n].attrib = Restrict(@, DOMAIN @ \ {old})]
              [] op.verb = "update" /\ op.node.sub.kind = "text" ->
                   IF n = None THEN FailedTree ELSE [t EXCEPT !.lab[n].text = op.value]
              [] op.verb = "update" /\ op.node.sub.kind = "attr" ->
                   IF n = None THEN FailedTree
                   ELSE IF old \notin DOMAIN attrib(n) THEN FailedTree
                   ELSE [t EXCEPT !.lab[n].attrib = Assign(@, old, op.value)]
              [] OTHER -> FailedTree
    IN IF ~IsElement(t) THEN t
       ELSE apply(Resolve(t, op.node.path), Resolve(t, op.target.path))

RECURSIVE ApplyScript(_, _)
ApplyScript(t, ops) ==
    IF ops = <<>> THEN t ELSE ApplyScript(ApplyOp(t, Head(ops)), Tail(ops))

-----------------------------------------------------------------------------
(* XMLFormatter (formatting.py): the annotated tree.  The names of the     *)
(* diff namespace are lists of pieces that start with "{diff}".  A run of  *)
(* format is a record of the result tree t and the exception raised (err). *)

DiffNS == "{diff}"
DiffDelete == <<DiffNS, "delete">>
DiffInsert == <<DiffNS, "insert">>
\* The tags of the elements diff:insert and diff:delete.
InsertTag == "{diff}insert"
DeleteTag == "{diff}delete"
\* '{%s}%s-attr' % (DIFF_NS, action)
DiffAttr(action) == <<DiffNS, action, "-attr">>

\* self.diff_tags: the open and the close placeholder of each action.
\* PlaceholderMaker.__init__ allocates them in this order: insert close,
\* insert open, delete close, delete open.
diff_tags(action) ==
    IF action = "insert" THEN <<"U+F0002", "U+F0001">> ELSE <<"U+F0004", "U+F0003">>

is_placeholder(char) == char \in Range(diff_tags("insert")) \cup Range(diff_tags("delete"))

\* wrap_diff(text, action)
wrap_diff(text, action) == <<diff_tags(action)[1]>> \o text \o <<diff_tags(action)[2]>>

FRaise(fs, e) == IF fs.err # "" THEN fs ELSE [fs EXCEPT !.err = e]

\* An _xpath that takes the first of several elements.
_xpath_first(t, path) ==
    LET S == xpath(t, path)
    IN IF S # {} THEN [node |-> CHOOSE n \in S : \A x \in S : n >= x, err |-> ""]
       ELSE [node |-> None, err |-> "ValueError"]

\* _xpath(node, xpath): the element found, or the ValueError.
_xpath(t, path) ==
    LET S == xpath(t, path)
    IN IF Cardinality(S) = 1 THEN [node |-> CHOOSE n \in S : TRUE, err |-> ""]
       ELSE [node |-> None, err |-> "ValueError"]

\* _extend_diff_attr(node, action, value) on the attributes attrib
_extend_diff_attr(attrib, action, value) ==
    LET diffattr == DiffAttr(action)
        oldvalue == IF diffattr \in DOMAIN attrib THEN attrib[diffattr] ELSE <<>>
    IN Assign(attrib, diffattr,
              IF oldvalue # <<>> THEN oldvalue \o <<";">> \o value ELSE value)

\* _delete_node(node)
_delete_node(t, node) == [t EXCEPT !.lab[node].attrib = Assign(@, DiffDelete, <<>>)]

\* A loop of _insert_node that never counts a deleted child.
InsertOffsetUnadjusted(t, children, position, pos, offset) == 0

\* The loop of _insert_node: the number of children marked as deleted that
\* come before the position.
RECURSIVE InsertOffset(_, _, _, _, _)
InsertOffset(t, children, position, pos, offset) ==
    IF children = <<>> THEN offset
    ELSE LET deleted == DiffDelete \in DOMAIN t.lab[Head(children)].attrib
             offset1 == IF deleted THEN offset + 1 ELSE offset
             pos1 == IF deleted THEN pos ELSE pos + 1
         IN IF pos1 > position THEN offset1
            ELSE InsertOffset(t, Tail(children), position, pos1, offset1)

\* _insert_node(target, node, position), the element node being in t
\* without a parent.
_insert_node(t, target, node, position) ==
    LET offset == InsertOffset(t, t.kids[target], position, 0, 0)
    IN [t EXCEPT !.lab[node].attrib = Assign(@, DiffInsert, <<>>),
                 !.kids[target] = InsertAt(@, position + offset, node)]

\* t with one more element n, which has no parent yet.
NewElement(t, n, lab) ==
    [t EXCEPT !.kids = [k \in Nodes(t) \cup {n} |-> IF k = n THEN <<>> ELSE t.kids[k]],
              !.lab = (n :> lab) @@ t.lab]

\* deepcopy(node): t with a copy of the subtree at node, which has no
\* parent yet; the copy of the element x is Twin(t, node, x).
Twin(t, node, x) == FreshNode(t) - 1 + IndexOf(post_order_traverse(t, node), x)

deepcopy(t, node) ==
    LET old == Subtree(t, node)
        new == {Twin(t, node, x) : x \in old}
        source(y) == CHOOSE x \in old : Twin(t, node, x) = y
    IN [t EXCEPT !.kids = [k \in Nodes(t) \cup new |->
                              IF k \in new
                              THEN [i \in 1..Len(t.kids[source(k)]) |->
                                        Twin(t, node, t.kids[source(k)][i])]
                              ELSE t.kids[k]],
                 !.lab = [k \in Nodes(t) \cup new |->
                              IF k \in new THEN t.lab[source(k)] ELSE t.lab[k]]]

\* The handlers.  Each of them takes the run fs and the action and gives
\* the run after it.

_handle_DeleteNode(fs, action) ==
    LET found(x) ==
            IF x.err # "" THEN FRaise(fs, x.err)
            ELSE [fs EXCEPT !.t = _delete_node(@, x.node)]
    IN found(_xpath(fs.t, action.node.path))

_handle_InsertNode(fs, action) ==
    LET new_node == FreshNode(fs.t)
        lab == [tag |-> action.tag, prefix |-> "", text |-> <<>>, tail |-> <<>>,
                attrib |-> <<>>]
        found(x) ==
            IF x.err # "" THEN FRaise(fs, x.err)
            ELSE [fs EXCEPT !.t = _insert_node(NewElement(@, new_node, lab), x.node, new_node,
                                               action.pos)]
    IN found(_xpath(fs.t, action.target.path))

_handle_MoveNode(fs, action) ==
    LET found(x, g) ==
            IF x.err # "" THEN FRaise(fs, x.err)
            ELSE IF g.err # "" THEN FRaise(fs, g.err)
            ELSE [fs EXCEPT !.t = _insert_node(_delete_node(deepcopy(@, x.node), x.node),
                                               g.node, Twin(fs.t, x.node, x.node), action.pos)]
    IN found(_xpath(fs.t, action.node.path), _xpath(fs.t, action.target.path))

_handle_DeleteAttrib(fs, action) ==
    LET name == action.node.sub.name
        found(x) ==
            IF x.err # "" THEN FRaise(fs, x.err)
            ELSE IF name \notin DOMAIN fs.t.lab[x.node].attrib THEN FRaise(fs, "KeyError")
            ELSE [fs EXCEPT !.t.lab[x.node].attrib =
                                _extend_diff_attr(Restrict(@, DOMAIN @ \ {name}), "delete", name)]
    IN found(_xpath(fs.t, action.node.path))

\* The path and the name of the attribute come as the target of the tuple.
_handle_InsertAttrib(fs, action) ==
    LET name == action.target.sub.name
        found(x) ==
            IF x.err # "" THEN FRaise(fs, x.err)
            ELSE [fs EXCEPT !.t.lab[x.node].attrib =
                                _extend_diff_attr(Assign(@, name, action.value), "add", name)]
    IN found(_xpath(fs.t, action.target.path))

\* The old name comes with the node of the tuple, the new one with its target.
_handle_RenameAttrib(fs, action) ==
    LET oldname == action.node.sub.name
        newname == action.target.sub.name
        found(x) ==
            IF x.err # "" THEN FRaise(fs, x.err)
            ELSE IF oldname \notin DOMAIN fs.t.lab[x.node].attrib THEN FRaise(fs, "KeyError")
            ELSE [fs EXCEPT !.t.lab[x.node].attrib =
                      LET a1 == Assign(@, newname, @[oldname])
                      IN _extend_diff_attr(Restrict(a1, DOMAIN a1 \ {oldname}), "rename",
                                           oldname \o <<":">> \o newname)]
    IN found(_xpath(fs.t, action.node.path))

_handle_UpdateAttrib(fs, action) ==
    LET name == action.node.sub.name
        found(x) ==
            IF x.err # "" THEN FRaise(fs, x.err)
            ELSE IF name \notin DOMAIN fs.t.lab[x.node].attrib THEN FRaise(fs, "KeyError")
            ELSE [fs EXCEPT !.t.lab[x.node].attrib =
                      _extend_diff_attr(Assign(@, name, action.value), "update",
                                        name \o <<":">> \o @[name])]
    IN found(_xpath(fs.t, action.node.path))

\* The length of the longest common prefix of two strings.
RECURSIVE CommonPrefix(_, _)
CommonPrefix(a, b) ==
    IF a = <<>> \/ b = <<>> THEN 0
    ELSE IF Head(a) # Head(b) THEN 0
    ELSE 1 + CommonPrefix(Tail(a), Tail(b))

Reverse(a) == [i \in 1..Len(a) |-> a[Len(a) + 1 - i]]

\* diff_match_patch().diff_main(left, right): a list of <<op, text>> with op
\* 0 for equal, -1 for delete and 1 for insert, delete before insert; here
\* the common prefix, the two middles and the common suffix.
diff_main(left_value, right_value) ==
    LET p == CommonPrefix(left_value, right_value)
        l1 == SubSeq(left_value, p + 1, Len(left_value))
        r1 == SubSeq(right_value, p + 1, Len(right_value))
        q == CommonPrefix(Reverse(l1), Reverse(r1))
    IN <<<<0, SubSeq(left_value, 1, p)>>,
         <<-1, SubSeq(l1, 1, Len(l1) - q)>>,
         <<1, SubSeq(r1, 1, Len(r1) - q)>>,
         <<0, SubSeq(l1, Len(l1) - q + 1, Len(l1))>>>>

\* _realign_placeholders(diff) for texts that hold no placeholder: the
\* segments with a text.
_realign_placeholders(diff) == SelectSeq(diff, LAMBDA seg : seg[2] # <<>>)

\* The loop of _make_diff_tags with target None: the text of the node.
RECURSIVE MakeDiffText(_, _)
MakeDiffText(text, diff) ==
    IF diff = <<>> THEN text
    ELSE LET op == Head(diff)[1]
             seg == Head(diff)[2]
             new_text == IF op = 0 THEN seg
                         ELSE wrap_diff(seg, IF op = -1 THEN "delete" ELSE "insert")
         IN MakeDiffText(text \o new_text, Tail(diff))

\* _make_diff_tags(left_value, right_value, node)
_make_diff_tags(left_value, right_value) ==
    MakeDiffText(<<>>, _realign_placeholders(diff_main(left_value, right_value)))

_handle_UpdateTextIn(fs, action) ==
    LET found(x) ==
            IF x.err # "" THEN FRaise(fs, x.err)
            ELSE [fs EXCEPT !.t.lab[x.node].text = _make_diff_tags(@, action.value)]
    IN found(_xpath(fs.t, action.node.path))

\* The class of the action that stands for a tuple of the script.
ActionType(op) ==
    CASE op.verb = "insert" /\ op.target.sub.kind = "node" -> "InsertNode"
      [] op.verb = "insert" /\ op.target.sub.kind = "attr" -> "InsertAttrib"
      [] op.verb = "move" /\ op.node.sub.kind = "node" -> "MoveNode"
      [] op.verb = "move" /\ op.node.sub.kind = "attr" -> "RenameAttrib"
      [] op.verb = "delete" /\ op.node.sub.kind = "node" -> "DeleteNode"
      [] op.verb = "delete" /\ op.node.sub.kind = "attr" -> "DeleteAttrib"
      [] op.verb = "update" /\ op.node.sub.kind = "text" -> "UpdateTextIn"
      [] op.verb = "update" /\ op.node.sub.kind = "attr" -> "UpdateAttrib"

\* handle_action(action, result)
handle_action(fs, action) ==
    IF fs.err # "" THEN fs
    ELSE CASE ActionType(action) = "InsertNode" -> _handle_InsertNode(fs, action)
           [] ActionType(action) = "InsertAttrib" -> _handle_InsertAttrib(fs, action)
           [] ActionType(action) = "MoveNode" -> _handle_MoveNode(fs, action)
           [] ActionType(action) = "RenameAttrib" -> _handle_RenameAttrib(fs, action)
           [] ActionType(action) = "DeleteNode" -> _handle_DeleteNode(fs, action)
           [] ActionType(action) = "DeleteAttrib" -> _handle_DeleteAttrib(fs, action)
           [] ActionType(action) = "UpdateTextIn" -> _handle_UpdateTextIn(fs, action)
           [] ActionType(action) = "UpdateAttrib" -> _handle_UpdateAttrib(fs, action)

RECURSIVE HandleAll(_, _)
HandleAll(fs, actions) ==
    IF actions = <<>> THEN fs ELSE HandleAll(handle_action(fs, Head(actions)), Tail(actions))

\* The plain text a string starts with.
RECURSIVE PlainPrefix(_)
PlainPrefix(text) ==
    IF text = <<>> THEN <<>>
    ELSE IF is_placeholder(Head(text)) THEN <<>>
    ELSE <<Head(text)>> \o PlainPrefix(Tail(text))

\* The elements that undo_string and etree.fromstring make of a text that
\* starts with an open placeholder: one diff:insert or diff:delete element
\* for each pair of placeholders, with the text after it as its tail.
RECURSIVE Wrappers(_)
Wrappers(text) ==
    IF text = <<>> THEN <<>>
    ELSE LET action == IF Head(text) = diff_tags("insert")[1] THEN "insert" ELSE "delete"
             inner == PlainPrefix(Tail(text))
             rest == SubSeq(text, Len(inner) + 3, Len(text))
             tail == PlainPrefix(rest)
         IN <<[tag |-> IF action = "insert" THEN InsertTag ELSE DeleteTag, prefix |-> "diff", text |-> inner, tail |-> tail,
               attrib |-> <<>>]>>
            \o Wrappers(SubSeq(rest, Len(tail) + 1, Len(rest)))

\* elem.insert(index, child) for the elements labs, from index on.
RECURSIVE InsertWrappers(_, _, _, _)
InsertWrappers(t, elem, labs, index) ==
    IF labs = <<>> THEN t
    ELSE LET child == FreshNode(t)
             t1 == NewElement(t, child, Head(labs))
         IN InsertWrappers([t1 EXCEPT !.kids[elem] = InsertAt(@, index, child)],
                           elem, Tail(labs), index + 1)

\* undo_element(elem), the part for elem.text
undo_text(t, elem) ==
    LET text == t.lab[elem].text
        lead == PlainPrefix(text)
    IN IF text = <<>> THEN t
       ELSE InsertWrappers([t EXCEPT !.lab[elem].text = lead], elem,
                           Wrappers(SubSeq(text, Len(lead) + 1, Len(text))), 0)

\* undo_tree(tree): undo_element on every element; no tail holds a
\* placeholder, and neither does the text of an element undo_element adds.
RECURSIVE UndoAll(_, _)
UndoAll(t, elems) ==
    IF elems = <<>> THEN t ELSE UndoAll(undo_text(t, Head(elems)), Tail(elems))

finalize(t) == UndoAll(t, post_order_traverse(t, t.root))

\* A format() that hands every action to handle_action as it comes.
format_order_undeferred(diff) == [i \in 1..Len(diff) |-> i]

\* The order in which format() hands the actions of diff to handle_action,
\* as positions in diff: the text updates are deferred and come last, in
\* reverse (formatting.py, lines 317..326).
format_order(diff) ==
    SelectSeq([i \in 1..Len(diff) |-> i], LAMBDA i : ActionType(diff[i]) # "UpdateTextIn")
    \o Reverse(SelectSeq([i \in 1..Len(diff) |-> i],
                         LAMBDA i : ActionType(diff[i]) = "UpdateTextIn"))

\* format(diff, orig_tree): the run that ends with the annotated tree.
format(diff, orig_tree) ==
    LET \* self.finalize(result)
        finished(fs2) == IF fs2.err # "" THEN fs2 ELSE [fs2 EXCEPT !.t = finalize(@)]
        handled(order) ==
            HandleAll([t |-> orig_tree, err |-> ""], [k \in 1..Len(order) |-> diff[order[k]]])
    IN finished(handled(format_order(diff)))

-----------------------------------------------------------------------------
(* Reading an annotated tree: every attribute of the diff namespace is     *)
(* stripped, every element marked as deleted and every diff:delete element *)
(* is dropped, and every diff:insert element is replaced by its text.      *)

IsDiffName(k) == k # <<>> /\ k[1] = DiffNS

\* text added at the end of what is read so far: of the text of the parent
\* when no child is kept yet, else of the tail of the last child kept.
AddText(st, text) ==
    IF st.kids = <<>> THEN [st EXCEPT !.text = @ \o text]
    ELSE [st EXCEPT !.kids[Len(st.kids)].lab.tail = @ \o text]

RECURSIVE ReduceNode(_, _), ReduceKids(_, _, _)
ReduceNode(t, n) ==
    LET st == ReduceKids(t, t.kids[n], [text |-> t.lab[n].text, kids |-> <<>>])
        attrib == t.lab[n].attrib
    IN [lab |-> [t.lab[n] EXCEPT !.text = st.text,
                                 !.attrib = Restrict(attrib,
                                                     {k \in DOMAIN attrib : ~IsDiffName(k)})],
        kids |-> st.kids]

ReduceKids(t, children, st) ==
    IF children = <<>> THEN st
    ELSE LET c == Head(children)
             lab == t.lab[c]
             st1 == IF lab.tag = InsertTag THEN AddText(st, lab.text \o lab.tail)
                    ELSE IF lab.tag = DeleteTag THEN AddText(st, lab.tail)
                    ELSE IF DiffDelete \in DOMAIN lab.attrib THEN st
                    ELSE [st EXCEPT !.kids = Append(@, ReduceNode(t, c))]
         IN ReduceKids(t, Tail(children), st1)

\* The annotated tree t reads as the tree rt.
ReducesTo(t, rt) ==
    /\ IsElement(t) /\ IsElement(rt)
    /\ ReduceNode(t, t.root) = Struct(rt, rt.root)

-----------------------------------------------------------------------------
(* PlaceholderMaker (formatting.py, lines 66..238).  An element that is not *)
(* part of a document is the value Struct gives: its label and its          *)
(* children.  A serialized string is a sequence of tokens: a character, a   *)
(* reference such as &amp;, a start tag or an end tag.  The elements here   *)
(* have no attributes.                                                      *)

T_OPEN == 0
T_CLOSE == 1
T_SINGLE == 2

\* self.placeholder = 0xf0000
PrivateUse == 983040

\* six.unichr(n) for the first code points after 0xf0000
unichr(n) ==
    <<"U+F0001", "U+F0002", "U+F0003", "U+F0004", "U+F0005", "U+F0006", "U+F0007", "U+F0008",
      "U+F0009", "U+F000A", "U+F000B", "U+F000C", "U+F000D", "U+F000E">>[n - PrivateUse]

\* The characters the serializer writes as a reference.
Special == {"&", "<"}

\* A text as the serializer writes it.
Escape(text) ==
    [i \in 1..Len(text) |->
        [k |-> IF text[i] \in Special THEN "ref" ELSE "char", v |-> text[i]]]

\* A text as it stands in a Python string.
Raw(text) == [i \in 1..Len(text) |-> [k |-> "char", v |-> text[i]]]

\* etree.tounicode(element): the element with its attributes, its content
\* and its tail.
RECURSIVE tounicode(_)
tounicode(element) ==
    <<[k |-> "start", v |-> element.lab.tag, a |-> element.lab.attrib]>>
    \o Escape(element.lab.text)
    \o Flatten([i \in 1..Len(element.kids) |-> tounicode(element.kids[i])])
    \o <<[k |-> "end", v |-> element.lab.tag]>>
    \o Escape(element.lab.tail)

\* The characters a string starts with, up to the next tag.
RECURSIVE TextPrefix(_)
TextPrefix(toks) ==
    IF toks = <<>> THEN <<>>
    ELSE IF Head(toks).k \in {"start", "end"} THEN <<>>
    ELSE <<Head(toks).v>> \o TextPrefix(Tail(toks))

\* The parser on the content of an element: its text and its children, and
\* the string from the end tag on.
RECURSIVE ParseContent(_)
RECURSIVE ParseChildren(_)
ParseContent(toks) ==
    LET children(text, c) == [text |-> text, kids |-> c.kids, rest |-> c.rest, err |-> c.err]
        texted(text) == children(text, ParseChildren(SubSeq(toks, Len(text) + 1, Len(toks))))
    IN texted(TextPrefix(toks))

\* The parser on a string that starts with a tag, or with nothing: the
\* elements up to the end tag of their parent, each with its tail.
ParseChildren(toks) ==
    IF toks = <<>> THEN [kids |-> <<>>, rest |-> toks, err |-> ""]
    ELSE IF Head(toks).k = "end" THEN [kids |-> <<>>, rest |-> toks, err |-> ""]
    ELSE LET tag == Head(toks).v
             bad == [kids |-> <<>>, rest |-> <<>>, err |-> "XMLSyntaxError"]
             element(inner, tail) ==
                 [lab |-> [tag |-> tag, prefix |-> "", text |-> inner.text, tail |-> tail,
                           attrib |-> Head(toks).a],
                  kids |-> inner.kids]
             more(inner, tail, m) ==
                 IF m.err # "" THEN bad
                 ELSE [kids |-> <<element(inner, tail)>> \o m.kids, rest |-> m.rest, err |-> ""]
             tailed(inner, tail) ==
                 more(inner, tail,
                      ParseChildren(SubSeq(inner.rest, Len(tail) + 2, Len(inner.rest))))
             closed(inner) ==
                 IF inner.err # "" \/ inner.rest = <<>> THEN bad
                 ELSE IF Head(inner.rest) # [k |-> "end", v |-> tag] THEN bad
                 ELSE tailed(inner, TextPrefix(Tail(inner.rest)))
         IN closed(ParseContent(Tail(toks)))

\* etree.fromstring(u'<wrap>%s</wrap>' % string): the text and the children
\* of the element wrap, or the XMLSyntaxError of a string that is not well
\* formed.
fromstring(string) ==
    LET bad == [text |-> <<>>, kids |-> <<>>, err |-> "XMLSyntaxError"]
        parsed(c) ==
            IF c.err # "" \/ c.rest # <<>> THEN bad
            ELSE [text |-> c.text, kids |-> c.kids, err |-> ""]
    IN IF \E i \in 1..Len(string) : string[i].k = "char" /\ string[i].v \in Special THEN bad
       ELSE parsed(ParseContent(string))

\* A get_placeholder that allocates without looking the key up.
get_placeholder_unshared(mk, element, ttype, close_ph) ==
    [mk |-> [placeholder |-> mk.placeholder + 1,
             placeholder2tag |->
                 Assign(mk.placeholder2tag, unichr(mk.placeholder + 1),
                        [element |-> element, ttype |-> ttype, close_ph |-> close_ph]),
             tag2placeholder |-> Assign(mk.tag2placeholder,
                                        <<tounicode(element), ttype, close_ph>>,
                                        unichr(mk.placeholder + 1))],
     ph |-> unichr(mk.placeholder + 1)]

\* get_placeholder(element, ttype, close_ph), close_ph being "" for None: the
\* maker after the call and the placeholder returned.
get_placeholder(mk, element, ttype, close_ph) ==
    LET allocate(key, ph) ==
            [mk |-> [placeholder |-> mk.placeholder + 1,
                     placeholder2tag |->
                         Assign(mk.placeholder2tag, ph,
                                [element |-> element, ttype |-> ttype, close_ph |-> close_ph]),
                     tag2placeholder |-> Assign(mk.tag2placeholder, key, ph)],
             ph |-> ph]
        lookup(key) ==
            IF key \in DOMAIN mk.tag2placeholder THEN [mk |-> mk, ph |-> mk.tag2placeholder[key]]
            ELSE allocate(key, unichr(mk.placeholder + 1))
    IN lookup(<<tounicode(element), ttype, close_ph>>)

\* PlaceholderMaker(text_tags, formatting_tags): __init__ allocates the
\* placeholders of diff_tags.
PlaceholderMaker ==
    LET insert_elem == [lab |-> [Lab(InsertTag, <<>>, <<>>) EXCEPT !.prefix = "diff"],
                        kids |-> <<>>]
        delete_elem == [lab |-> [Lab(DeleteTag, <<>>, <<>>) EXCEPT !.prefix = "diff"],
                        kids |-> <<>>]
        delete_open(c) == get_placeholder(c.mk, delete_elem, T_OPEN, c.ph).mk
        delete_close(o) == delete_open(get_placeholder(o.mk, delete_elem, T_CLOSE, ""))
        insert_open(c) == delete_close(get_placeholder(c.mk, insert_elem, T_OPEN, c.ph))
    IN insert_open(get_placeholder([placeholder |-> PrivateUse, placeholder2tag |-> <<>>,
                                    tag2placeholder |-> <<>>],
                                   insert_elem, T_CLOSE, ""))

\* formatting_tags=['b'], as the tests have it
formatting_tags == {"b"}

is_formatting(element) == element.lab.tag \in formatting_tags

\* do_element(element).  The entries of a formatting child hold the child
\* itself, which the loop leaves without tail, text and children.
RECURSIVE do_element(_, _)
RECURSIVE DoChildren(_, _, _)
DoChildren(mk, new_text, children) ==
    IF children = <<>> THEN [mk |-> mk, text |-> new_text]
    ELSE LET tail == Head(children).lab.tail
             child == [Head(children) EXCEPT !.lab.tail = <<>>]
             emptied(m, ph) ==
                 [m EXCEPT !.placeholder2tag[ph].element =
                               [lab |-> [child.lab EXCEPT !.text = <<>>], kids |-> <<>>]]
             inner(c, o, d) ==
                 DoChildren(emptied(emptied(d.mk, c.ph), o.ph),
                            new_text \o <<o.ph>> \o d.element.lab.text \o <<c.ph>> \o tail,
                            Tail(children))
             opened(c, o) == inner(c, o, do_element(o.mk, child))
             closed(c) == opened(c, get_placeholder(c.mk, child, T_OPEN, c.ph))
             single(s) == DoChildren(s.mk, new_text \o <<s.ph>> \o tail, Tail(children))
         IN IF is_formatting(child) THEN closed(get_placeholder(mk, child, T_CLOSE, ""))
            ELSE single(get_placeholder(mk, child, T_SINGLE, ""))

do_element(mk, element) ==
    LET done(r) ==
            [mk |-> r.mk,
             element |-> [lab |-> [element.lab EXCEPT !.text = r.text], kids |-> <<>>]]
    IN done(DoChildren(mk, element.lab.text, element.kids))

\* undo_string(text): the maker, the string and the error.  An open
\* placeholder takes the segments up to its close placeholder as the text of
\* the entry's element, which the close entry holds as well.
RECURSIVE undo_string(_, _)
RECURSIVE UndoSegments(_, _, _)
UndoSegments(mk, segments, result) ==
    IF segments = <<>> THEN [mk |-> mk, result |-> result, err |-> ""]
    ELSE IF ~(Head(segments).k = "char" /\ Head(segments).v \in DOMAIN mk.placeholder2tag)
    THEN UndoSegments(mk, Tail(segments), Append(result, Head(segments)))
    ELSE LET ph == Head(segments).v
             entry == mk.placeholder2tag[ph]
             texted(m, p, new_text) ==
                 IF p \in DOMAIN m.placeholder2tag
                 THEN [m EXCEPT !.placeholder2tag[p].element.lab.text = new_text]
                 ELSE m
             after(rest, sub) ==
                 IF sub.err # "" THEN sub
                 ELSE UndoSegments(sub.mk, rest, result \o sub.result)
             serialized(m, rest) ==
                 after(rest, undo_string(m, tounicode(m.placeholder2tag[ph].element)))
             open(stop) ==
                 IF stop = 0 THEN [mk |-> mk, result |-> result, err |-> "IndexError"]
                 ELSE serialized(texted(texted(mk, entry.close_ph,
                                               [i \in 1..(stop - 1) |-> segments[i + 1].v]),
                                        ph, [i \in 1..(stop - 1) |-> segments[i + 1].v]),
                                 SubSeq(segments, stop + 2, Len(segments)))
         IN IF entry.ttype = T_OPEN
            THEN open(IndexOf(Tail(segments), [k |-> "char", v |-> entry.close_ph]))
            ELSE serialized(mk, Tail(segments))

undo_string(mk, text) == UndoSegments(mk, text, <<>>)

\* undo_element(elem): the maker, the element, the elements its tail leaves
\* after it in its parent, and the error.  UndoText is the part for elem.text
\* and the part for elem.tail up to the insertion of the children,
\* UndoChildren a loop of undo_element over children.
RECURSIVE undo_element(_, _)
RECURSIVE UndoChildren(_, _, _)
RECURSIVE UndoText(_, _)
UndoChildren(mk, children, done) ==
    IF children = <<>> THEN [mk |-> mk, kids |-> done, err |-> ""]
    ELSE LET undone(u) ==
                 IF u.err # "" THEN [mk |-> u.mk, kids |-> done, err |-> u.err]
                 ELSE UndoChildren(u.mk, Tail(children), done \o <<u.element>> \o u.after)
         IN undone(undo_element(mk, Head(children)))

UndoText(mk, text) ==
    LET children(content, c) ==
            [mk |-> c.mk, text |-> content.text, kids |-> c.kids, err |-> c.err]
        parsed(u, content) ==
            IF content.err # ""
            THEN [mk |-> u.mk, text |-> <<>>, kids |-> <<>>, err |-> content.err]
            ELSE children(content, UndoChildren(u.mk, content.kids, <<>>))
        undone(u) ==
            IF u.err # "" THEN [mk |-> u.mk, text |-> <<>>, kids |-> <<>>, err |-> u.err]
            ELSE parsed(u, fromstring(u.result))
    IN IF text = <<>> THEN [mk |-> mk, text |-> <<>>, kids |-> <<>>, err |-> ""]
       ELSE undone(undo_string(mk, Raw(text)))

undo_element(mk, elem) ==
    LET raised(m, e) == [mk |-> m, element |-> elem, after |-> <<>>, err |-> e]
        tailed(a, b, c) ==
            IF c.err # "" THEN raised(c.mk, c.err)
            ELSE [mk |-> c.mk,
                  element |-> [lab |-> [elem.lab EXCEPT !.text = a.text, !.tail = c.text],
                               kids |-> b.kids],
                  after |-> c.kids, err |-> ""]
        childed(a, b) ==
            IF b.err # "" THEN raised(b.mk, b.err)
            ELSE tailed(a, b, UndoText(b.mk, elem.lab.tail))
        texted(a) ==
            IF a.err # "" THEN raised(a.mk, a.err)
            ELSE childed(a, UndoChildren(a.mk, a.kids \o elem.kids, <<>>))
    IN texted(UndoText(mk, elem.lab.text))

-----------------------------------------------------------------------------
(* The text updates of a formatter whose texts hold placeholders           *)
(* (formatting.py, lines 215..242 and 428..535).  mk is the formatter's    *)
(* PlaceholderMaker.                                                       *)

\* is_placeholder(char) of the maker mk
IsPlaceholder(mk, char) == Len(char) = 1 /\ char[1] \in DOMAIN mk.placeholder2tag

\* '{%s}%s' % (DIFF_NS, action + '-formatting')
DiffFormatting(action) == <<DiffNS, action, "-formatting">>

\* mark_diff(ph, action): the maker after the call, the placeholder
\* returned and the error.  The text of an element of the forward pass that
\* is not a formatting one is None when it is empty (a parsed element
\* without text, an element made by etree.Element), and
\* open_ph + None raises TypeError in wrap_diff.
mark_diff(mk, ph, action) ==
    LET entry == mk.placeholder2tag[ph]
        marked(elem) ==
            IF is_formatting(elem)
            THEN [elem EXCEPT !.lab.attrib = Assign(@, DiffFormatting(action), <<>>)]
            ELSE [elem EXCEPT !.lab.text = wrap_diff(@, action)]
        placed(g) == [mk |-> g.mk, ph |-> g.ph, err |-> ""]
    IN IF ph \notin DOMAIN mk.placeholder2tag THEN [mk |-> mk, ph |-> ph, err |-> "KeyError"]
       ELSE IF entry.ttype = T_CLOSE THEN [mk |-> mk, ph |-> ph, err |-> ""]
       ELSE IF ~is_formatting(entry.element) /\ entry.element.lab.text = <<>>
       THEN [mk |-> mk, ph |-> ph, err |-> "TypeError"]
       ELSE placed(get_placeholder(mk, marked(entry.element), entry.ttype, entry.close_ph))

\* The loop "while stack_entry is not None and stack_entry.close_ph != seg"
\* of _realign_placeholders: the stack holds <<op, open placeholder>>, the
\* last one on top.  found is the entry popped last, <<>> for (None, None).
RECURSIVE RealignPop(_, _, _)
RealignPop(mk, st, seg) ==
    IF st.stack = <<>> THEN [st EXCEPT !.found = <<>>]
    ELSE LET top == st.stack[Len(st.stack)]
             rest == SubSeq(st.stack, 1, Len(st.stack) - 1)
         IN IF mk.placeholder2tag[top[2]].close_ph = seg
            THEN [st EXCEPT !.stack = rest, !.found = top]
            ELSE RealignPop(mk, [st EXCEPT !.stack = rest,
                                           !.new_diff = Append(@, <<top[1],
                                               <<mk.placeholder2tag[top[2]].close_ph>>>>)],
                            seg)

\* The loop "for seg in segments" of _realign_placeholders, a character at
\* a time: split_string cuts the text at every placeholder, and a segment
\* of plain text is added to new_text as it is.
RECURSIVE RealignSegments(_, _, _, _)
RealignSegments(mk, op, text, st) ==
    IF text = <<>> \/ st.err # "" THEN st
    ELSE LET seg == Head(text)
             plain == [st EXCEPT !.new_text = Append(@, seg)]
             closed(p) ==
                 IF p.found = <<>> THEN p
                 ELSE IF ~(p.found[1] <= op) THEN [p EXCEPT !.err = "AssertionError"]
                 ELSE [p EXCEPT !.new_text = Append(@, seg), !.asserted = @ + 1]
         IN RealignSegments(mk, op, Tail(text),
                IF seg \notin DOMAIN mk.placeholder2tag THEN plain
                ELSE IF mk.placeholder2tag[seg].ttype = T_SINGLE THEN plain
                ELSE IF mk.placeholder2tag[seg].ttype = T_OPEN
                THEN [plain EXCEPT !.stack = Append(@, <<op, seg>>)]
                ELSE closed(RealignPop(mk, st, seg)))

\* The loop "for op, text in diff" of _realign_placeholders.
RECURSIVE RealignDiff(_, _, _)
RealignDiff(mk, diff, st) ==
    IF diff = <<>> \/ st.err # "" THEN st
    ELSE LET done(s1) ==
                 IF s1.err # "" \/ s1.new_text = <<>> THEN s1
                 ELSE [s1 EXCEPT !.new_diff = Append(@, <<Head(diff)[1], s1.new_text>>)]
         IN RealignDiff(mk, Tail(diff),
                        done(RealignSegments(mk, Head(diff)[1], Head(diff)[2],
                                             [st EXCEPT !.new_text = <<>>])))

\* _realign_placeholders(diff) with the placeholders of mk: new_diff, the
\* number of times the assertion held, and the error.
RealignPlaceholders(mk, diff) ==
    RealignDiff(mk, diff, [stack |-> <<>>, new_diff |-> <<>>, new_text |-> <<>>,
                           found |-> <<>>, asserted |-> 0, err |-> ""])

\* The loop "for op, text in diff" of _make_diff_tags.  st holds the maker,
\* node.text (target None) or cur_child.tail (target given) in value, and
\* the error; after is "cur_child is not None".
RECURSIVE MakeDiffLoop(_, _, _)
MakeDiffLoop(st, diff, after) ==
    IF diff = <<>> \/ st.err # "" THEN st
    ELSE LET op == Head(diff)[1]
             text == Head(diff)[2]
             action == IF op = -1 THEN "delete" ELSE "insert"
             \* "ph = mark_diff(text, action)": added to node.text only
             marked(g) ==
                 IF g.err # "" THEN [st EXCEPT !.mk = g.mk, !.err = g.err]
                 ELSE IF after THEN [st EXCEPT !.mk = g.mk]
                 ELSE [st EXCEPT !.mk = g.mk, !.value = Append(@, g.ph)]
         IN MakeDiffLoop(
                IF op = 0 THEN [st EXCEPT !.value = @ \o text]
                ELSE IF IsPlaceholder(st.mk, text) THEN marked(mark_diff(st.mk, text[1], action))
                ELSE [st EXCEPT !.value = @ \o wrap_diff(text, action)],
                Tail(diff), after)

\* _make_diff_tags(left_value, right_value, node, target) on the diff that
\* diff_main and diff_cleanupSemantic have given for the two values.
MakeDiffTags(mk, diff, after) ==
    LET realigned(r) ==
            IF r.err # "" THEN [mk |-> mk, value |-> <<>>, err |-> r.err]
            ELSE MakeDiffLoop([mk |-> mk, value |-> <<>>, err |-> ""], r.new_diff, after)
    IN realigned(RealignPlaceholders(mk, diff))

-----------------------------------------------------------------------------
(* The state of a Matcher, of one run of its diff() generator, and of the  *)
(* caller.                                                                 *)

VARIABLES
    F,            \* Matcher.F, a fraction
    uniqueattrs,  \* Matcher.uniqueattrs, a list of attribute names
    doc_left,     \* the caller's left argument (a parsed document, None or an object)
    doc_right,    \* the caller's right argument
    sets,         \* the number of set_seqs calls so far
    left,         \* Matcher.left
    right,        \* Matcher.right
    matches_obj,  \* the identity of the list Matcher._matches, 0 for None
    objects,      \* the number of list objects created so far
    matches,      \* the contents of Matcher._matches
    l2rmap,       \* Matcher._l2rmap
    r2lmap,       \* Matcher._r2lmap
    inorder,      \* Matcher._inorder
    gen,          \* the diff() generator: "none", "pass1", "pass2", "done", "raised"
    todo,         \* the nodes the generator's current loop has still to visit
    script,       \* the operations yielded so far
    at,           \* at[k]: the left tree when script[k] was yielded
    who,          \* who[k]: the left node and the left target script[k] is about
    orig,         \* the left tree when diff() started
    err,          \* the exception the last call raised, "" for none
    returned,     \* the <<identity, contents>> match() returned: the first and the last
                  \* since set_seqs
    result,       \* the annotated tree of XMLFormatter.format, NoneTree before
    copy,         \* the local "result" of a format() call in progress: its deep copy
                  \* of the tree it was given, NoneTree while no call is in progress
    maker,        \* a PlaceholderMaker: its counter and its two dictionaries
    input,        \* a call of a function of utils.py or formatting.py: its name "op"
                  \* and its arguments
    output        \* what that call returned or raised, "op" being "none" before

vars == <<F, uniqueattrs, doc_left, doc_right, sets, left, right, matches_obj, objects,
          matches, l2rmap, r2lmap, inorder, gen, todo, script, at, who, orig, err,
          returned, result, copy, maker, input, output>>

config == <<F, uniqueattrs, doc_left, doc_right>>
caches == <<matches_obj, objects, matches, l2rmap, r2lmap, inorder>>
run == <<gen, todo, script, at, who, orig>>
calls == <<maker, input, output>>

\* The number of set_seqs calls of one behaviour.
MaxSets == 1

\* Matcher.__init__: default F = 0.5 (match.py, line 11)
DefaultF == <<1, 2>>
\* uniqueattrs = ['{http://www.w3.org/XML/1998/namespace}id'] (match.py, line 19)
XmlId == <<"i", "d">>
DefaultUnique == <<XmlId>>

\* No PlaceholderMaker, and no call.
NoMaker == [placeholder |-> 0, placeholder2tag |-> <<>>, tag2placeholder |-> <<>>]
NoCall == [op |-> "none"]

\* Matcher.__init__ and clear(), and a caller holding two arguments.
MatcherInit(Fs, Uniques, Lefts, Rights) ==
    /\ F \in Fs
    /\ uniqueattrs \in Uniques
    /\ doc_left \in Lefts
    /\ doc_right \in Rights
    /\ sets = 0
    /\ left = NoneTree
    /\ right = NoneTree
    /\ matches_obj = 0
    /\ objects = 0
    /\ matches = <<>>
    /\ l2rmap = <<>>
    /\ r2lmap = <<>>
    /\ inorder = {}
    /\ gen = "none"
    /\ todo = <<>>
    /\ script = <<>>
    /\ at = <<>>
    /\ who = <<>>
    /\ orig = NoneTree
    /\ err = ""
    /\ returned = <<>>
    /\ result = NoneTree
    /\ copy = NoneTree

\* A Matcher and its caller, with no formatter call of its own.
InitWith(Fs, Uniques, Lefts, Rights) ==
    /\ MatcherInit(Fs, Uniques, Lefts, Rights)
    /\ maker = NoMaker
    /\ input = NoCall
    /\ output = NoCall

\* A call of a function on its own: no Matcher takes part.
InitCall(Maker, Inputs) ==
    /\ MatcherInit({DefaultF}, {DefaultUnique}, {NoneTree}, {NoneTree})
    /\ maker = Maker
    /\ input \in Inputs
    /\ output = NoCall

matcher == <<config, sets, left, right, caches, run, err, returned, result, copy>>

\* set_seqs(left, right) (match.py, lines 34..37), with clear().
SetSeqs ==
    /\ sets < MaxSets
    /\ gen \notin {"pass1", "pass2"}
    /\ sets' = sets + 1
    /\ left' = doc_left
    /\ right' = doc_right
    /\ matches_obj' = 0
    /\ matches' = <<>>
    /\ l2rmap' = <<>>
    /\ r2lmap' = <<>>
    /\ inorder' = {}
    /\ gen' = "none"
    /\ todo' = <<>>
    /\ script' = <<>>
    /\ at' = <<>>
    /\ who' = <<>>
    /\ orig' = NoneTree
    /\ err' = ""
    /\ returned' = <<>>
    /\ result' = NoneTree
    /\ copy' = NoneTree
    /\ UNCHANGED <<config, calls, objects>>

\* What a call of match() does to the caches and what it raises or returns
\* (match.py, lines 44..101).
match_call ==
    LET computed(st) ==
            [obj |-> objects + 1, objects |-> objects + 1, matches |-> st.matches,
             l2rmap |-> st.l2rmap, r2lmap |-> st.r2lmap, inorder |-> {}, err |-> ""]
    IN IF left.kind = "none" \/ right.kind = "none"
       THEN [obj |-> matches_obj, objects |-> objects, matches |-> matches, l2rmap |-> l2rmap,
             r2lmap |-> r2lmap, inorder |-> inorder, err |-> "RuntimeError"]
       ELSE IF matches_obj # 0
       THEN [obj |-> matches_obj, objects |-> objects, matches |-> matches, l2rmap |-> l2rmap,
             r2lmap |-> r2lmap, inorder |-> inorder, err |-> ""]
       ELSE IF ~IsElement(left) \/ ~IsElement(right)
       THEN [obj |-> objects + 1, objects |-> objects + 1, matches |-> <<>>, l2rmap |-> <<>>,
             r2lmap |-> <<>>, inorder |-> {}, err |-> "AttributeError"]
       ELSE computed(ComputeMatch(F, uniqueattrs, left, right))

\* The first and the last value match() returned.
Returned(old, obj, list) ==
    IF old = <<>> THEN <<<<obj, list>>, <<obj, list>>>> ELSE <<old[1], <<obj, list>>>>

\* A call of match() by the caller.
Match ==
    \E m \in {match_call} :
       /\ matches_obj' = m.obj
       /\ objects' = m.objects
       /\ matches' = m.matches
       /\ l2rmap' = m.l2rmap
       /\ r2lmap' = m.r2lmap
       /\ inorder' = m.inorder
       /\ err' = m.err
       /\ returned' = IF m.err = "" THEN Returned(returned, m.obj, m.matches) ELSE returned
       /\ UNCHANGED <<config, calls, sets, left, right, run, result, copy>>

\* The first next() on diff(): match(), then the traversal of the right
\* tree begins (match.py, lines 281..290).
DiffStart ==
    /\ gen = "none"
    /\ \E m \in {match_call} :
       \* self.left.getroottree() on an object that is no element
       \E e \in {IF m.err # "" THEN m.err
                 ELSE IF ~IsElement(left) \/ ~IsElement(right) THEN "AttributeError"
                 ELSE ""} :
          /\ matches_obj' = m.obj
          /\ objects' = m.objects
          /\ matches' = m.matches
          /\ l2rmap' = m.l2rmap
          /\ r2lmap' = m.r2lmap
          /\ inorder' = m.inorder
          /\ err' = e
          /\ gen' = IF e = "" THEN "pass1" ELSE "raised"
          /\ todo' = IF e = "" THEN breadth_first_traverse(right, right.root) ELSE <<>>
          /\ orig' = IF e = "" THEN left ELSE orig
    /\ script' = <<>>
    /\ at' = <<>>
    /\ who' = <<>>
    /\ UNCHANGED <<config, calls, sets, left, right, returned, result, copy>>

\* One round of the loop of pass 1: steps (a) to (d) for the next right
\* node.  After the last round the generator enters pass 2.
DiffVisit ==
    /\ gen = "pass1"
    /\ todo # <<>>
    /\ \E rnode \in {Head(todo)} :
       \E c1 \in {diff_visit([r |-> [lt |-> left, ops |-> script, at |-> at, who |-> who,
                                     err |-> ""],
                              matches |-> matches, l2rmap |-> l2rmap, r2lmap |-> r2lmap],
                             right, inorder, rnode)} :
       \E order \in Perms(IF c1.r.err # "" THEN {}
                          ELSE align_unaligned(c1.r.lt, right, c1.l2rmap, c1.r2lmap,
                                               inorder, c1.lnode, rnode)) :
       \E r2 \in {align_children(c1.r, right, c1.l2rmap, c1.r2lmap, inorder,
                                 c1.lnode, rnode, order)} :
          /\ left' = r2.lt
          /\ script' = r2.ops
          /\ at' = r2.at
          /\ who' = r2.who
          /\ err' = r2.err
          /\ matches' = c1.matches
          /\ l2rmap' = c1.l2rmap
          /\ r2lmap' = c1.r2lmap
          /\ inorder' = IF c1.r.err # "" THEN inorder
                        ELSE align_inorder(c1.r.lt, right, c1.l2rmap, c1.r2lmap,
                                           inorder, c1.lnode, rnode)
          /\ gen' = IF r2.err # "" THEN "raised"
                    ELSE IF Tail(todo) = <<>> THEN "pass2" ELSE "pass1"
          /\ todo' = IF r2.err # "" THEN <<>>
                     ELSE IF Tail(todo) = <<>> THEN diff_delete_nodes(r2.lt)
                     ELSE Tail(todo)
    /\ UNCHANGED <<config, calls, sets, right, matches_obj, objects, orig, returned, result,
                 copy>>

\* One round of the loop of pass 2 (match.py, lines 347..351).
DeleteVisit ==
    /\ gen = "pass2"
    /\ todo # <<>>
    /\ \E r1 \in {diff_delete([lt |-> left, ops |-> script, at |-> at, who |-> who, err |-> ""],
                              l2rmap, Head(todo))} :
          /\ left' = r1.lt
          /\ script' = r1.ops
          /\ at' = r1.at
          /\ who' = r1.who
          /\ err' = r1.err
          /\ gen' = IF r1.err # "" THEN "raised"
                    ELSE IF Tail(todo) = <<>> THEN "done" ELSE "pass2"
          /\ todo' = IF r1.err # "" THEN <<>> ELSE Tail(todo)
    /\ UNCHANGED <<config, calls, sets, right, caches, orig, returned, result, copy>>

\* The states of the generator in which format() runs "result =
\* deepcopy(orig_tree)": diff_trees hands format() the generator that
\* differ.diff() returned, of which no statement has run yet, and the copy is
\* the first statement that touches the tree, before the loop "for action in
\* diff" (main.py, lines 16..21; formatting.py, lines 314..318).
copy_inside_loop == {"none", "pass1"}
copy_before_loop == {"none"}

\* The call formatter.format(diffs, left_tree) up to its loop: the formatter
\* copies the tree it is given.
FormatCall ==
    /\ sets > 0
    /\ gen \in copy_before_loop
    /\ copy = NoneTree
    /\ result = NoneTree
    /\ copy' = left
    /\ UNCHANGED <<config, calls, sets, left, right, caches, run, err, returned, result>>

\* The rest of format() once its loop has exhausted the generator: every
\* operation is applied to the copy, then finalize() (formatting.py, lines
\* 318..328).
Format ==
    /\ gen = "done"
    /\ copy # NoneTree
    /\ result = NoneTree
    /\ \E fs \in {format(script, copy)} :
          /\ result' = IF fs.err # "" THEN FailedTree ELSE fs.t
          /\ err' = fs.err
    /\ output' = [op |-> "format", diff |-> script, handled |-> format_order(script)]
    /\ UNCHANGED <<config, maker, input, sets, left, right, caches, run, returned, copy>>

Next == SetSeqs \/ Match \/ DiffStart \/ DiffVisit \/ DeleteVisit \/ FormatCall \/ Format

\* The letters of the documents.
TextX == <<"x">>
TextXY == <<"x", "y">>
Labels == {Lab("a", TextX, <<>>), Lab("a", TextXY, <<>>), Lab("b", TextX, <<>>)}

FValues == {<<0, 1>>, <<1, 2>>, <<1, 1>>}

Init ==
    InitWith(FValues, {DefaultUnique},
             TreesOf(Labels, MaxNodes, 2) \cup {NoneTree, ObjectTree},
             TreesOf(Labels, MaxNodes, -1) \cup {NoneTree, ObjectTree})

Spec == Init /\ [][Next]_vars

\* Deeper documents of tags only, with the defaults of Matcher.__init__.
DeepNodes == 4
TagLabels == {Lab("a", <<>>, <<>>), Lab("b", <<>>, <<>>)}

InitDeep ==
    InitWith({DefaultF}, {DefaultUnique},
             TreesOf(TagLabels, DeepNodes, 2), TreesOf(TagLabels, DeepNodes, -1))

SpecDeep == InitDeep /\ [][Next]_vars

\* A document and a structurally identical one.
SameNodes == 4
SameLabels == {Lab("a", TextX, <<>>), Lab("a", <<>>, XmlId :> <<"A">>), Lab("b", TextXY, <<>>)}

InitSame ==
    \E k \in 1..SameNodes : \E d \in Shapes(k) : \E lb \in [1..k -> SameLabels] :
        InitWith(FValues, {DefaultUnique}, {MkTree(d, lb, 2)}, {MkTree(d, lb, -1)})

SpecSame == InitSame /\ [][Next]_vars

\* Documents with unique attributes, matched with the default F under the
\* default uniqueattrs and under a list of two names.
IdNodes == 2
KeyAttr == <<"k">>
IdLabels ==
    {Lab("a", TextX, <<>>), Lab("a", TextX, XmlId :> <<"A">>), Lab("a", TextX, XmlId :> <<"B">>),
     Lab("a", TextX, (XmlId :> <<"A">>) @@ (KeyAttr :> <<"A">>))}

InitId ==
    InitWith({DefaultF}, {DefaultUnique, <<XmlId, KeyAttr>>},
             TreesOf(IdLabels, IdNodes, 2), TreesOf(IdLabels, IdNodes, -1))

NextId == SetSeqs \/ Match

SpecId == InitId /\ [][NextId]_vars

\* Small documents of tags only handed to diff_trees with a formatter.
FormatNodes == 3

InitFormat ==
    InitWith({DefaultF}, {DefaultUnique},
             TreesOf(TagLabels, FormatNodes, 2), TreesOf(TagLabels, FormatNodes, -1))

SpecFormat == InitFormat /\ [][Next]_vars

\* One operation handed to handle_action with a copy of a document.  The
\* paths are those of the elements of such documents, with and without their
\* positions.
Documents == TreesOf({Lab("a", <<>>, <<>>), Lab("b", TextX, KeyAttr :> TextX)}, FormatNodes, 2)
Unindexed(path) == [i \in 1..Len(path) |-> <<path[i][1], 0>>]
DocumentPaths ==
    UNION {{getpath(t, n) : n \in Nodes(t)} \cup {Unindexed(getpath(t, n)) : n \in Nodes(t)} :
           t \in Documents}
Operations ==
    {DeleteNodeOp(p) : p \in DocumentPaths}
    \cup {InsertNodeOp("a", p, 0) : p \in DocumentPaths}
    \cup {MoveNodeOp(p[1], p[2], 0) : p \in DocumentPaths \X DocumentPaths}
    \cup {UpdateTextOp(p, TextXY) : p \in DocumentPaths}
    \cup {UpdateAttribOp(p, KeyAttr, TextXY) : p \in DocumentPaths}
    \cup {MoveAttribOp(p, KeyAttr, p, XmlId) : p \in DocumentPaths}
    \cup {InsertAttribOp(p, XmlId, TextX) : p \in DocumentPaths}
    \cup {DeleteAttribOp(p, KeyAttr) : p \in DocumentPaths}

InitHandle ==
    InitCall(NoMaker, {[op |-> "handle_action", t |-> p[1], action |-> p[2]] :
              p \in Documents \X Operations})

\* formatter.handle_action(action, result)
Handle ==
    /\ input.op = "handle_action"
    /\ output.op = "none"
    /\ \E fs \in {handle_action([t |-> input.t, err |-> ""], input.action)} :
          output' = [op |-> "handle_action", t |-> fs.t, err |-> fs.err]
    /\ UNCHANGED <<matcher, maker, input>>

SpecHandle == InitHandle /\ [][Handle]_vars

\* A text element handed to do_element and then to undo_element of one
\* PlaceholderMaker.  The element is a p with its text; among the elements
\* below it are formatting ones (b) and others (i, p), with text and tail.
TextNodes == 3
TextLabels ==
    {Lab("p", x, <<>>) : x \in {<<>>, TextX, <<"&">>}}
    \cup {[Lab(p[1], p[2], <<>>) EXCEPT !.tail = p[3]] :
           p \in {"b", "i"} \X {<<>>, TextX} \X {<<>>, TextX}}
TextElements ==
    UNION {{Struct(MkTree(d, lb, 2), 2) :
            d \in Shapes(k),
            lb \in {f \in [1..k -> TextLabels] : f[1].tag = "p" /\ f[1].tail = <<>>}} :
           k \in 1..TextNodes}

InitText == InitCall(PlaceholderMaker, {[op |-> "do_element", element |-> e] : e \in TextElements})

\* replacer.do_element(element)
DoElement ==
    /\ input.op = "do_element"
    /\ output.op = "none"
    /\ \E d \in {do_element(maker, input.element)} :
          /\ maker' = d.mk
          /\ output' = [op |-> "do_element", element |-> d.element, err |-> ""]
    /\ UNCHANGED <<matcher, input>>

\* replacer.undo_element(element) on the element do_element has worked on
UndoElement ==
    /\ output.op = "do_element"
    /\ \E u \in {undo_element(maker, output.element)} :
          /\ maker' = u.mk
          /\ output' = [op |-> "undo_element", element |-> u.element, err |-> u.err]
    /\ UNCHANGED <<matcher, input>>

NextText == DoElement \/ UndoElement

SpecText == InitText /\ [][NextText]_vars

\* replacer.mark_diff(ph, action) on a placeholder the forward pass over the
\* element has produced; the call keeps the maker as it was before it.
MarkDiff ==
    /\ output.op = "do_element"
    /\ \E ph \in DOMAIN maker.placeholder2tag \ DOMAIN PlaceholderMaker.placeholder2tag,
          action \in {"insert", "delete"} :
       \E g \in {mark_diff(maker, ph, action)} :
          /\ input' = [op |-> "mark_diff", ph |-> ph, action |-> action, mk |-> maker]
          /\ maker' = g.mk
          /\ output' = [op |-> "mark_diff", ph |-> g.ph, err |-> g.err]
    /\ UNCHANGED matcher

NextMark == DoElement \/ MarkDiff

SpecMark == InitText /\ [][NextMark]_vars

\* A document r whose children have tags of their own, and the same
\* document with the children in another order.
ReorderKids == 3
ChildTags == <<"a", "b", "c", "d", "e">>
Siblings(order, unit) ==
    MkTree([i \in 1..(Len(order) + 1) |-> IF i = 1 THEN 0 ELSE 1],
           [i \in 1..(Len(order) + 1) |->
               Lab(IF i = 1 THEN "r" ELSE ChildTags[order[i - 1]], <<>>, <<>>)],
           unit)

InitReorder ==
    \E k \in 1..ReorderKids : \E order \in Perms(1..k) :
        InitWith(FValues, {DefaultUnique}, {Siblings([i \in 1..k |-> i], 2)},
                 {Siblings(order, -1)})

SpecReorder == InitReorder /\ [][Next]_vars

\* An element with attributes, and the element with other attributes: up to
\* AttrNames names, each absent or with one of two values.
AttrNames == 3
AttrKeys == <<<<"d">>, <<"i">>, <<"k">>, <<"x">>>>
AttrMaps == UNION {[S -> {TextX, TextXY}] : S \in SUBSET {AttrKeys[i] : i \in 1..AttrNames}}

InitAttr ==
    InitWith(FValues, {DefaultUnique},
             {MkTree(<<0>>, <<Lab("n", TextX, m)>>, 2) : m \in AttrMaps},
             {MkTree(<<0>>, <<Lab("n", TextX, m)>>, -1) : m \in AttrMaps})

SpecAttr == InitAttr /\ [][Next]_vars

\* Two sequences of up to LcsItems items and a predicate on their items,
\* handed to longest_common_subsequence.
LcsItems == 3
Sequences == UNION {[1..n -> {1, 2}] : n \in 0..LcsItems}

InitLcs ==
    InitCall(NoMaker, {[op |-> "longest_common_subsequence", left_sequence |-> p[1],
                        right_sequence |-> p[2], eqfn |-> p[3]] :
                       p \in Sequences \X Sequences \X SUBSET ({1, 2} \X {1, 2})})

\* utils.longest_common_subsequence(left_sequence, right_sequence, eqfn)
Lcs ==
    /\ input.op = "longest_common_subsequence"
    /\ output.op = "none"
    /\ output' = [op |-> "longest_common_subsequence",
                  pairs |-> longest_common_subsequence(input.left_sequence,
                                                       input.right_sequence, input.eqfn)]
    /\ UNCHANGED <<matcher, maker, input>>

SpecLcs == InitLcs /\ [][Lcs]_vars

\* Up to AllocCalls calls of get_placeholder on one PlaceholderMaker, with
\* elements that are new to it and the diff:insert element its constructor
\* has allocated for, each kind, and no or some close placeholder.
AllocCalls == 3
AllocElements ==
    {[lab |-> Lab("b", <<>>, <<>>), kids |-> <<>>],
     [lab |-> [Lab(InsertTag, <<>>, <<>>) EXCEPT !.prefix = "diff"], kids |-> <<>>]}
AllocClose == {"", unichr(PrivateUse + 1), unichr(PrivateUse + 5)}

InitAlloc == InitCall(PlaceholderMaker, {NoCall})

\* The calls made so far, each with its key and the placeholder returned.
AllocLog == IF output.op = "get_placeholder" THEN output.log ELSE <<>>

\* replacer.get_placeholder(element, ttype, close_ph)
GetPlaceholder ==
    /\ Len(AllocLog) < AllocCalls
    /\ \E element \in AllocElements, ttype \in {T_OPEN, T_CLOSE, T_SINGLE},
          close_ph \in AllocClose :
       \E g \in {get_placeholder(maker, element, ttype, close_ph)} :
          /\ maker' = g.mk
          /\ input' = [op |-> "get_placeholder", element |-> element, ttype |-> ttype,
                       close_ph |-> close_ph]
          /\ output' = [op |-> "get_placeholder",
                        log |-> Append(AllocLog,
                                       [key |-> <<tounicode(element), ttype, close_ph>>,
                                        ph |-> g.ph])]
    /\ UNCHANGED matcher

SpecAlloc == InitAlloc /\ [][GetPlaceholder]_vars

\* A document of up to BfsNodes elements handed to breadth_first_traverse.
BfsNodes == 6

InitBfs ==
    InitCall(NoMaker, {[op |-> "breadth_first_traverse", t |-> t] :
                       t \in TreesOf({Lab("n", <<>>, <<>>)}, BfsNodes, 2)})

\* list(utils.breadth_first_traverse(root))
BreadthFirst ==
    /\ input.op = "breadth_first_traverse"
    /\ output.op = "none"
    /\ output' = [op |-> "breadth_first_traverse",
                  nodes |-> breadth_first_traverse(input.t, input.t.root)]
    /\ UNCHANGED <<matcher, maker, input>>

SpecBfs == InitBfs /\ [][BreadthFirst]_vars

\* A left document of up to PruneNodes elements and a smaller right one, so
\* that whole subtrees of the left document are deleted.
PruneNodes == 4

InitPrune ==
    InitWith({DefaultF}, {DefaultUnique},
             TreesOf({Lab("a", <<>>, <<>>)}, PruneNodes, 2),
             TreesOf(TagLabels, PruneNodes - 1, -1))

SpecPrune == InitPrune /\ [][Next]_vars

\* A right document of up to GrowNodes elements and a small left one, under
\* Matcher(F=1/3), so that several nodes are inserted under one parent.
GrowNodes == 4
GrowF == <<1, 3>>

InitGrow ==
    InitWith({GrowF}, {DefaultUnique},
             TreesOf(TagLabels, GrowNodes - 2, 2), TreesOf(TagLabels, GrowNodes, -1))

SpecGrow == InitGrow /\ [][Next]_vars

\* A left document of up to MoveNodes elements of two tags and a smaller
\* right one of one tag, so that nodes move to another parent while others
\* find no partner.
MoveNodes == 4

InitMove ==
    InitWith({DefaultF}, {DefaultUnique},
             TreesOf(TagLabels, MoveNodes, 2),
             TreesOf({Lab("a", <<>>, <<>>)}, MoveNodes - 1, -1))

SpecMove == InitMove /\ [][Next]_vars

\* Documents of up to EditNodes elements with texts, a tail and an attribute,
\* so that a script holds several text updates and other operations after
\* them.
EditNodes == 2
EditLabels ==
    {Lab("a", TextX, <<>>), Lab("a", TextX, KeyAttr :> TextX),
     [Lab("a", TextXY, <<>>) EXCEPT !.tail = TextX]}

InitEdit ==
    InitWith({DefaultF}, {DefaultUnique},
             TreesOf(EditLabels, EditNodes, 2), TreesOf(EditLabels, EditNodes, -1))

SpecEdit == InitEdit /\ [][Next]_vars

\* Two elements handed to leaf_ratio: tags in Clark notation with the
\* namespace prefixes their documents give them, a text, and the unique
\* attribute or none.
LeafLabels ==
    {[Lab(p[2], p[3], p[4]) EXCEPT !.prefix = p[1]] :
        p \in ({"", "p", "q"} \X {"{u}a", "{u}b", "{v}a"} \X {TextX, TextXY}
               \X {<<>>, XmlId :> <<"A">>})}
    \cup {Lab("a", x, <<>>) : x \in {TextX, TextXY}}

InitLeaf ==
    InitCall(NoMaker, {[op |-> "leaf_ratio", left |-> MkTree(<<0>>, <<p[1]>>, 2),
                        right |-> MkTree(<<0>>, <<p[2]>>, -1)] :
                       p \in LeafLabels \X LeafLabels})

\* self.leaf_ratio(left, right)
LeafRatio ==
    /\ input.op = "leaf_ratio"
    /\ output.op = "none"
    /\ output' = [op |-> "leaf_ratio",
                  ratio |-> leaf_ratio(uniqueattrs, input.left, input.left.root,
                                       input.right, input.right.root)]
    /\ UNCHANGED <<matcher, maker, input>>

SpecLeaf == InitLeaf /\ [][LeafRatio]_vars

\* A target whose up to InsertKids children are unmarked, marked as deleted
\* or marked as inserted, and a position from 0 to past the last child.
InsertKids == 3
Marks == {<<>>, DiffDelete :> <<>>, DiffInsert :> <<>>}

InitInsert ==
    InitCall(NoMaker,
             UNION {{[op |-> "_insert_node",
                      t |-> MkTree([i \in 1..(k + 1) |-> IF i = 1 THEN 0 ELSE 1],
                                   [i \in 1..(k + 1) |->
                                       Lab("a", <<>>, IF i = 1 THEN <<>> ELSE m[i - 1])], 2),
                      position |-> p] :
                     m \in [1..k -> Marks], p \in 0..(InsertKids + 1)} :
                    k \in 0..InsertKids})

\* self._insert_node(target, node, position) with a new element node and
\* the root as target
InsertNodeCall ==
    /\ input.op = "_insert_node"
    /\ output.op = "none"
    /\ \E node \in {FreshNode(input.t)} :
          output' = [op |-> "_insert_node", node |-> node,
                     t |-> _insert_node(NewElement(input.t, node, Lab("a", <<>>, <<>>)),
                                        input.t.root, node, input.position)]
    /\ UNCHANGED <<matcher, maker, input>>

SpecInsert == InitInsert /\ [][InsertNodeCall]_vars

\* A text update of a formatter after the forward pass over
\* <p><b>x</b><i>x</i></p>, with formatting tag b: the old and the new
\* value are strings of up to TagLen characters over x and the three
\* placeholders of the pass (close of b, open of b, the whole of i).
TagLen == 2
TagElement ==
    [lab |-> Lab("p", <<>>, <<>>),
     kids |-> <<[lab |-> Lab("b", TextX, <<>>), kids |-> <<>>],
                [lab |-> Lab("i", TextX, <<>>), kids |-> <<>>]>>]
TagMaker == do_element(PlaceholderMaker, TagElement).mk
TagChars == {"x", unichr(PrivateUse + 5), unichr(PrivateUse + 6), unichr(PrivateUse + 7)}
TagTexts == UNION {[1..n -> TagChars] : n \in 0..TagLen}

InitTags ==
    InitCall(TagMaker, {[op |-> "UpdateText", after |-> p[1], left_value |-> p[2],
                         right_value |-> p[3]] :
                        p \in BOOLEAN \X TagTexts \X TagTexts})

\* _handle_UpdateTextIn (after FALSE) and _handle_UpdateTextAfter (after
\* TRUE) from "left_value = ..." on: value is node.text or node.tail once
\* _make_diff_tags has returned.
UpdateText ==
    /\ input.op = "UpdateText"
    /\ output.op = "none"
    /\ \E r \in {MakeDiffTags(maker, diff_main(input.left_value, input.right_value),
                               input.after)} :
          /\ maker' = r.mk
          /\ output' = [op |-> "UpdateText", value |-> r.value, err |-> r.err]
    /\ UNCHANGED <<matcher, input>>

SpecTags == InitTags /\ [][UpdateText]_vars

\* A character diff handed to _realign_placeholders: up to RealignSegs
\* segments of one character each, x or the open or the close placeholder
\* of b, with op -1, 0 or 1.  The old string is what the segments with op
\* 0 and -1 spell, the new string what those with op 0 and 1 spell; in
\* both, every close placeholder follows its open one and none is left open.
RealignSegs == 4

\* The string the segments with an op in ops spell.
Spelled(diff, ops) ==
    Flatten([i \in 1..Len(diff) |-> IF diff[i][1] \in ops THEN diff[i][2] ELSE <<>>])

\* The open placeholders of text that are not closed yet, or -1 once a close
\* placeholder has come without an open one.
RECURSIVE OpenDepth(_, _)
OpenDepth(text, depth) ==
    IF depth < 0 \/ text = <<>> THEN depth
    ELSE OpenDepth(Tail(text),
                   IF Head(text) = unichr(PrivateUse + 6) THEN depth + 1
                   ELSE IF Head(text) = unichr(PrivateUse + 5) THEN depth - 1
                   ELSE depth)

Balanced(text) == OpenDepth(text, 0) = 0

InitRealign ==
    InitCall(TagMaker,
             {[op |-> "_realign_placeholders", diff |-> d] :
              d \in {e \in UNION {[1..n -> {-1, 0, 1} \X {<<c>> : c \in TagChars \ {unichr(PrivateUse + 7)}}] :
                                  n \in 1..RealignSegs} :
                        Balanced(Spelled(e, {0, -1})) /\ Balanced(Spelled(e, {0, 1}))}})

\* self._realign_placeholders(diff)
Realign ==
    /\ input.op = "_realign_placeholders"
    /\ output.op = "none"
    /\ \E r \in {RealignPlaceholders(maker, input.diff)} :
          output' = [op |-> "_realign_placeholders", new_diff |-> r.new_diff,
                     asserted |-> r.asserted, err |-> r.err]
    /\ UNCHANGED <<matcher, maker, input>>

SpecRealign == InitRealign /\ [][Realign]_vars

-----------------------------------------------------------------------------
(* Properties of the edit script *)

\* C1: when diff() has run to completion, the emitted script applied in
\* order to a copy of the original left tree gives a tree structurally
\* equal to the right tree.
C1_ScriptYieldsRight ==
    gen = "done" => SameTree(ApplyScript(orig, script), right)

\* The internal left tree at the moment operation k + 1 is about to be
\* emitted (the current one when operation k is the last so far).
LeftAfter(k) == IF k < Len(script) THEN at[k + 1] ELSE left

\* C2: at every point of diff() and for every k, operations 1..k applied to
\* a copy of the original left tree give exactly the generator's internal
\* left tree, the moves emitted by align_children included.
C2_PrefixGivesInternalLeft ==
    gen \in {"pass1", "pass2", "done"} =>
        \A k \in 1..Len(script) :
            SameTree(ApplyScript(orig, SubSeq(script, 1, k)), LeftAfter(k))

\* The path p carried by an operation is the path of the left node n in the
\* left tree t and selects that node only.
PathOf(t, p, n) ==
    /\ n \in Nodes(t)
    /\ p = getpath(t, n)
    /\ xpath(t, p) = {n}

\* C3: every node path and target path of an emitted operation is the path,
\* in the left tree at the moment of emission, of the left node (or left
\* target parent) the operation is about, and selects exactly that element.
C3_PathsAreLeftPaths ==
    \A k \in 1..Len(script) :
        /\ script[k].node # NoPath => PathOf(at[k], script[k].node.path, who[k].node)
        /\ script[k].target # NoPath => PathOf(at[k], script[k].target.path, who[k].target)

\* The right node at the place in the right document where the left node n
\* is in the left document.
Counterpart(n) == CHOOSE r \in Nodes(doc_right) : 2 * r = -n

\* C4: once the two trees are set, diffing a tree against a structurally
\* identical tree never raises and emits nothing, and match() pairs every node with its counterpart,
\* which has the same path.
C4_SameTreeEmptyScript ==
    (sets > 0 /\ SameTree(doc_left, doc_right)) =>
        /\ gen # "raised"
        /\ script = <<>>
        /\ (matches_obj # 0 /\ IsElement(left)) =>
               \A n \in Nodes(doc_left) :
                   /\ n \in DOMAIN l2rmap
                   /\ l2rmap[n] = Counterpart(n)
                   /\ getpath(left, n) = getpath(right, l2rmap[n])

\* diff() has run to completion on two identical documents of several
\* elements.
C4_Witness ==
    /\ SameTree(doc_left, doc_right)
    /\ gen = "done"
    /\ Cardinality(Nodes(doc_left)) >= 3
    /\ Len(matches) = Cardinality(Nodes(doc_left))

\* C10: the annotated tree that format makes of the script of diff() reads
\* as the right tree once the diff attributes are stripped, the deleted
\* elements dropped and the inserted texts unwrapped.
C10_AnnotatedReadsAsRight ==
    IsElement(result) => ReducesTo(result, right)

-----------------------------------------------------------------------------
(* Properties of the matching *)

\* C5: for every F and at every point of match() and diff(), every triple
\* pairs an actual left node with an actual right node, no node occurs in
\* two triples, and the left-to-right and right-to-left maps are inverse.
C5_MatchesOneToOne ==
    (IsElement(left) /\ IsElement(right)) =>
        /\ \A i \in DOMAIN matches :
              /\ matches[i][1] \in Nodes(left)
              /\ matches[i][2] \in Nodes(right)
        /\ \A i, j \in DOMAIN matches :
              i # j => matches[i][1] # matches[j][1] /\ matches[i][2] # matches[j][2]
        /\ \A l \in DOMAIN l2rmap :
              l2rmap[l] \in DOMAIN r2lmap /\ r2lmap[l2rmap[l]] = l
        /\ \A r \in DOMAIN r2lmap :
              r2lmap[r] \in DOMAIN l2rmap /\ l2rmap[r2lmap[r]] = r

\* The attributes of the two nodes of the i-th triple.
LeftAttrib(i) == left.lab[matches[i][1]].attrib
RightAttrib(i) == right.lab[matches[i][2]].attrib

\* Both nodes of the i-th triple carry the attribute a with the same value.
BothCarry(i, a) ==
    /\ a \in DOMAIN LeftAttrib(i)
    /\ a \in DOMAIN RightAttrib(i)
    /\ LeftAttrib(i)[a] = RightAttrib(i)[a]

\* C6 as stated: with the default F, in the match set of match(), a
\* configured unique attribute that either node of a pair carries is
\* carried by both with the same value.
C6_EveryUniqueAttrAgrees ==
    (F = DefaultF /\ gen = "none" /\ IsElement(left) /\ IsElement(right)) =>
        \A i \in DOMAIN matches : \A a \in Range(uniqueattrs) :
            (a \in DOMAIN LeftAttrib(i) \/ a \in DOMAIN RightAttrib(i)) => BothCarry(i, a)

\* C6 amended: with the default F, in the match set of match(), the first
\* configured unique attribute that either node of a pair carries is carried
\* by both with the same value; with the default uniqueattrs this is xml:id.
C6_FirstUniqueAttrAgrees ==
    (F = DefaultF /\ gen = "none" /\ IsElement(left) /\ IsElement(right)) =>
        \A i \in DOMAIN matches :
            LET present == UniquePresent(uniqueattrs, LeftAttrib(i), RightAttrib(i))
            IN present # <<>> => BothCarry(i, Head(present))

\* A pair with the same id is matched while a left node with an id has been
\* left without a partner although the right tree has one more element.
C6_Witness ==
    /\ F = DefaultF /\ gen = "none" /\ IsElement(left) /\ IsElement(right)
    /\ \E i \in DOMAIN matches : BothCarry(i, XmlId)
    /\ \E n \in Nodes(left) : n \notin DOMAIN l2rmap /\ XmlId \in DOMAIN left.lab[n].attrib
    /\ Cardinality(Nodes(right)) > Len(matches)

\* C7: between two set_seqs calls every match() returns the list the first
\* call returned: the same list object with the same triples in the same
\* order, whatever ran in between.
C7_MatchIsStable ==
    returned # <<>> => returned[2] = returned[1]

\* C8: diff() on two elements never raises, whether or not the roots are
\* matched to each other and whatever F is.
C8_DiffNeverRaises ==
    (IsElement(left) /\ IsElement(right)) => gen # "raised"

\* C9: set_seqs with an argument that is no element raises a TypeError and
\* stores nothing.
C9_SetSeqsRejectsNonElements ==
    [][(sets' = sets + 1 /\ (~IsElement(doc_left) \/ ~IsElement(doc_right)))
          => (err' = "TypeError" /\ left' = left /\ right' = right)]_vars

-----------------------------------------------------------------------------
(* Properties of the annotating formatter *)

\* C11: format() never writes to the tree it is given: the steps of a format()
\* call (taking the copy, applying the operations) leave the Matcher's left
\* tree as it is, and the copy the annotations are applied to is the left tree
\* as it was before diff() changed it.
C11_FormatWorksOnPreDiffCopy ==
    [][/\ (sets' = sets /\ (copy' # copy \/ result' # result) => left' = left)
       /\ (copy' # NoneTree /\ orig' # NoneTree => copy' = orig')]_vars

\* A format() call has finished over a script whose production changed the
\* left tree.
C11_Witness ==
    /\ IsElement(result)
    /\ script # <<>>
    /\ left # orig
    /\ copy = orig

\* The paths an operation has the formatter resolve.
OpPaths(op) ==
    CASE ActionType(op) \in {"InsertNode", "InsertAttrib"} -> {op.target.path}
      [] ActionType(op) = "MoveNode" -> {op.node.path, op.target.path}
      [] OTHER -> {op.node.path}

C13_RoundTrip ==
    output.op = "undo_element" => output.err = "" /\ output.element = input.element

-----------------------------------------------------------------------------
(* Properties of the operations diff() yields *)

\* The length of a longest common subsequence of A and B under the relation
\* eq, by the textbook recursion.
RECURSIVE LcsLength(_, _, _)
LcsLength(A, B, eq) ==
    IF A = <<>> \/ B = <<>> THEN 0
    ELSE Max(Max(LcsLength(Tail(A), B, eq), LcsLength(A, Tail(B), eq)),
             IF <<Head(A), Head(B)>> \in eq THEN 1 + LcsLength(Tail(A), Tail(B), eq) ELSE 0)

\* The tags of the children of the root of a document.
ChildOrder(t) == [i \in 1..Len(t.kids[t.root]) |-> t.lab[t.kids[t.root][i]].tag]

\* The script of a reorder holds nothing but moves of elements, one for each
\* child that is not on a longest common subsequence.
OnlyMoves ==
    /\ \A k \in 1..Len(script) : script[k].verb = "move" /\ script[k].node.sub.kind = "node"
    /\ Len(script) = Len(ChildOrder(doc_left))
                      - LcsLength(ChildOrder(doc_left), ChildOrder(doc_right),
                                  {<<x, x>> : x \in Range(ChildTags)})

\* C14: a reorder of matched siblings yields only moves, one for each child
\* off the longest common subsequence; from a, b, c to b, c, a it yields the
\* one move of a under r to position 2.
C14_ReorderIsOneMovePerChild ==
    gen = "done" =>
        /\ OnlyMoves
        /\ (ChildOrder(doc_left) = <<"a", "b", "c">> /\ ChildOrder(doc_right) = <<"b", "c", "a">>
            => /\ Len(script) = 1
               /\ xpath(doc_left, script[1].node.path) = {doc_left.kids[doc_left.root][1]}
               /\ xpath(doc_left, script[1].target.path) = {doc_left.root}
               /\ script[1].pos = 2)

\* The renames of attributes in the script, as pairs of the old and the new
\* name, and the names the script inserts and deletes.
Renames ==
    {<<script[k].node.sub.name, script[k].target.sub.name>> :
     k \in {j \in 1..Len(script) : script[j].verb = "move" /\ script[j].node.sub.kind = "attr"}}
Inserted ==
    {script[k].target.sub.name :
     k \in {j \in 1..Len(script) : script[j].verb = "insert" /\ script[j].target.sub.kind = "attr"}}
Deleted ==
    {script[k].node.sub.name :
     k \in {j \in 1..Len(script) : script[j].verb = "delete" /\ script[j].node.sub.kind = "attr"}}
LeftOnly == DOMAIN doc_left.lab[doc_left.root].attrib \ DOMAIN doc_right.lab[doc_right.root].attrib
RightOnly == DOMAIN doc_right.lab[doc_right.root].attrib \ DOMAIN doc_left.lab[doc_left.root].attrib

\* C15: every rename in the script takes a name only the left node has to a
\* name only the right node has, of the same value; no name is the new name
\* of two rename operations; no renamed name is inserted or deleted; one
\* left-only and one right-only name of one value give exactly one rename.
C15_RenamesPairEqualValues ==
    /\ \A p \in Renames :
          /\ p[1] \in LeftOnly /\ p[2] \in RightOnly
          /\ doc_left.lab[doc_left.root].attrib[p[1]] = doc_right.lab[doc_right.root].attrib[p[2]]
          /\ p[2] \notin Inserted /\ p[1] \notin Deleted
    /\ \A new \in RightOnly :
          Cardinality({k \in 1..Len(script) :
                          /\ script[k].verb = "move" /\ script[k].node.sub.kind = "attr"
                          /\ script[k].target.sub.name = new}) <= 1
    /\ gen = "done" =>
          \A old \in LeftOnly : \A new \in RightOnly :
              /\ LeftOnly = {old} /\ RightOnly = {new}
              /\ doc_left.lab[doc_left.root].attrib[old] = doc_right.lab[doc_right.root].attrib[new]
              => Renames = {<<old, new>>} /\ Inserted = {} /\ Deleted = {}

-----------------------------------------------------------------------------
(* Properties of utils.py *)

\* C16: the pairs longest_common_subsequence returns are positions of the two
\* sequences, strictly increasing in both components, each of them a pair of
\* items the predicate holds for, and as many as a longest common
\* subsequence has.
C16_LcsIsLongest ==
    output.op = "longest_common_subsequence" =>
        /\ \A k \in 1..Len(output.pairs) :
              /\ output.pairs[k][1] \in 0..(Len(input.left_sequence) - 1)
              /\ output.pairs[k][2] \in 0..(Len(input.right_sequence) - 1)
              /\ <<input.left_sequence[output.pairs[k][1] + 1],
                    input.right_sequence[output.pairs[k][2] + 1]>> \in input.eqfn
        /\ \A k \in 1..(Len(output.pairs) - 1) :
              /\ output.pairs[k][1] < output.pairs[k + 1][1]
              /\ output.pairs[k][2] < output.pairs[k + 1][2]
        /\ Len(output.pairs) = LcsLength(input.left_sequence, input.right_sequence, input.eqfn)

\* A result of two pairs that leaves out an item of each sequence, under a
\* predicate that is not the equality.
C16_Witness ==
    /\ output.op = "longest_common_subsequence"
    /\ Len(output.pairs) = 2
    /\ Len(input.left_sequence) = 3 /\ Len(input.right_sequence) = 3
    /\ input.eqfn = {<<1, 2>>}
    /\ \E k \in 1..2 : output.pairs[k][1] # output.pairs[k][2]

\* The positions, among the children of the root of the left document, of
\* the children the moves of the script name, in the order of the script.
MovedChildren ==
    [k \in 1..Len(script) |->
        IndexOf(doc_left.kids[doc_left.root],
                CHOOSE n \in xpath(doc_left, script[k].node.path) : TRUE)]

\* C17: diff() is deterministic: the documents determine the script.  The
\* moves one align_children call yields come in one fixed order, the order
\* of the children of the left node.
C17_MovesInFixedOrder ==
    gen = "done" /\ OnlyMoves =>
        \A j, k \in 1..Len(script) : j < k => MovedChildren[j] < MovedChildren[k]

\* The DeleteNode operations of the script, and the left tree as pass 2
\* finds it: the tree the first of them is emitted on.
DeleteNodes == {k \in 1..Len(script) : ActionType(script[k]) = "DeleteNode"}
LeftOfPass2 == at[CHOOSE k \in DeleteNodes : \A j \in DeleteNodes : k <= j]

RECURSIVE NodeDepth(_, _)
NodeDepth(t, n) == IF getparent(t, n) = None THEN 0 ELSE 1 + NodeDepth(t, getparent(t, n))

\* C19: breadth_first_traverse yields the root first and then the
\* descendants level by level: every node once, and no node before a node
\* of smaller depth.
C19_LevelOrder ==
    output.op = "breadth_first_traverse" =>
        /\ output.nodes[1] = input.t.root
        /\ Len(output.nodes) = Cardinality(Subtree(input.t, input.t.root))
        /\ Range(output.nodes) = Subtree(input.t, input.t.root)
        /\ \A j, k \in 1..Len(output.nodes) :
              j < k => NodeDepth(input.t, output.nodes[j]) <= NodeDepth(input.t, output.nodes[k])

-----------------------------------------------------------------------------
(* Properties of the placeholder allocator *)

\* The keys the constructor has allocated for, and every call so far, the
\* constructor's included, as a pair of key and placeholder.
ConstructorKeys == DOMAIN PlaceholderMaker.tag2placeholder
AllCalls ==
    {[key |-> k, ph |-> PlaceholderMaker.tag2placeholder[k]] : k \in ConstructorKeys}
    \cup {AllocLog[i] : i \in 1..Len(AllocLog)}

\* The calls of the log that came with a key no call before had.
FreshCalls == {i \in 1..Len(AllocLog) :
                 /\ AllocLog[i].key \notin ConstructorKeys
                 /\ \A j \in 1..(i - 1) : AllocLog[j].key # AllocLog[i].key}

-----------------------------------------------------------------------------
(* Properties of update_node, match and leaf_ratio *)

\* C21: update_node(ln, rn) on a matched pair completes without error and
\* leaves ln with the text, the tail and the attribute map of rn, whatever
\* the attribute maps are.
C21_UpdateNodeMakesEqual ==
    /\ gen \in {"pass2", "done", "raised"}
    /\ Nodes(doc_left) = {doc_left.root} /\ Nodes(doc_right) = {doc_right.root}
    /\ doc_left.root \in DOMAIN l2rmap
    => /\ err = ""
       /\ left.lab[doc_left.root].text = doc_right.lab[doc_right.root].text
       /\ left.lab[doc_left.root].tail = doc_right.lab[doc_right.root].tail
       /\ left.lab[doc_left.root].attrib = doc_right.lab[doc_right.root].attrib

\* The score of match() for a pair of nodes, under the matches recorded.
MatchScore(l, r) ==
    FracMul(leaf_ratio(uniqueattrs, left, l, right, r), child_ratio(l2rmap, left, l, right, r))

\* C22: match() takes a right node out of the candidates only when it
\* records a match with it.  A left node is processed after its children,
\* so its scores are those under the final matches: when match() has
\* returned, no left node without a partner scores F or more with a right
\* node without a partner.
C22_UnmatchedStayAvailable ==
    matches_obj # 0 /\ gen = "none" /\ err = "" /\ IsElement(left) /\ IsElement(right) =>
        \A l \in Nodes(left) \ DOMAIN l2rmap : \A r \in Nodes(right) \ DOMAIN r2lmap :
            ~FracGeq(MatchScore(l, r), F)

\* C23: leaf_ratio is 0 when the two elements differ in namespace URI or
\* local name, and the tag test looks at nothing else: elements of one
\* namespace URI and local name are scored on their unique attributes or
\* their node text, whatever their prefixes.
C23_TagTestIgnoresPrefix ==
    output.op = "leaf_ratio" =>
        output.ratio = leaf_ratio_tag_only(uniqueattrs, input.left, input.left.root,
                                           input.right, input.right.root)

-----------------------------------------------------------------------------
(* Properties of the passes of diff() *)

\* The InsertNode and MoveNode operations of the script, and the right node
\* each of them places: the one whose new left node the insert adds, or the
\* partner of the node moved.
Placements == {k \in 1..Len(script) : ActionType(script[k]) \in {"InsertNode", "MoveNode"}}
Placed(k) ==
    IF ActionType(script[k]) = "InsertNode"
    THEN CHOOSE r \in Nodes(right) : NewNode(r) \in Nodes(LeftAfter(k)) \ Nodes(at[k])
    ELSE l2rmap[who[k].node]

\* The in-order siblings before a right node under its parent.
InorderBefore(r) ==
    {getchildren(right, getparent(right, r))[i] :
        i \in 1..(IndexOf(getchildren(right, getparent(right, r)), r) - 1)} \cap inorder

\* C24: the position of every InsertNode and MoveNode emitted is an integer
\* from 0 to the number of children the target left parent has at the
\* moment of emission, and it is 0 when no in-order sibling precedes the
\* right node under its parent.
C24_PositionsInRange ==
    \A k \in Placements :
        /\ who[k].target \in Nodes(at[k])
        /\ script[k].pos \in 0..Len(at[k].kids[who[k].target])
        /\ InorderBefore(Placed(k)) = {} => script[k].pos = 0

\* A finished script that places a node which has right siblings before it,
\* none of them in order, under a target that has children already.
C24_Witness ==
    /\ gen = "done"
    /\ \E k \in Placements :
          /\ InorderBefore(Placed(k)) = {}
          /\ IndexOf(getchildren(right, getparent(right, Placed(k))), Placed(k)) > 1
          /\ Len(at[k].kids[who[k].target]) > 1
          /\ script[k].pos = 0

\* The left nodes below a node of a tree.
Descendants(t, n) == Subtree(t, n) \ {n}

\* C25: when pass 1 of diff() has finished, every right node has a left
\* partner in the left tree, and the parent of the partner of every
\* non-root right node is the partner of its parent; no node pass 2
\* deletes has a matched node below it.
C25_Pass1MirrorsRight ==
    /\ gen = "pass2" /\ DeleteNodes = {} =>
          \A r \in Nodes(right) :
              /\ r \in DOMAIN r2lmap
              /\ r2lmap[r] \in Nodes(left)
              /\ r # right.root =>
                    /\ getparent(right, r) \in DOMAIN r2lmap
                    /\ getparent(left, r2lmap[r]) = r2lmap[getparent(right, r)]
    /\ \A k \in DeleteNodes :
          Descendants(at[k], who[k].node) \cap DOMAIN l2rmap = {}

\* Pass 1 has finished with a script that moves a node to another parent,
\* and the left tree holds a node without a partner, which pass 2 will
\* delete.
C25_Witness ==
    /\ gen = "pass2" /\ DeleteNodes = {}
    /\ \E k \in Placements :
          /\ ActionType(script[k]) = "MoveNode"
          /\ getparent(at[k], who[k].node) # getparent(left, who[k].node)
    /\ Nodes(left) \ DOMAIN l2rmap # {}

-----------------------------------------------------------------------------
(* Properties of the formatter *)

\* The script the last call of format() was given.
FormatDiff == IF output.op = "format" THEN output.diff ELSE <<>>

\* The positions of the text updates of that script.
TextUpdates == {k \in 1..Len(FormatDiff) : ActionType(FormatDiff[k]) = "UpdateTextIn"}

C27_InsertSkipsDeleted ==
    output.op = "_insert_node" =>
        LET target == input.t.root
            old == input.t.kids[target]
            new == output.t.kids[target]
            at0(s) == IndexOf(s, output.node) - 1
            deleted(x) == DiffDelete \in DOMAIN output.t.lab[x].attrib
            live(s) == Cardinality({i \in 1..Len(s) : ~deleted(s[i])})
            gone(s) == Cardinality({i \in 1..Len(s) : deleted(s[i])})
        IN /\ DiffInsert \in DOMAIN output.t.lab[output.node].attrib
           /\ SelectSeq(new, LAMBDA x : x # output.node) = old
           /\ Len(new) = Len(old) + 1
           /\ \A x \in Range(old) : output.t.lab[x] = input.t.lab[x]
           /\ live(SubSeq(new, 1, at0(new))) =
                  (IF input.position < live(old) THEN input.position ELSE live(old))
           /\ at0(new) < Len(old) => ~deleted(new[at0(new) + 2])
           /\ input.position <= live(old) =>
                  at0(new) = input.position + gone(SubSeq(new, 1, at0(new)))

\* The node went behind a deleted child and before a child that is not
\* deleted, with another child before the deleted one.
C27_Witness ==
    /\ output.op = "_insert_node"
    /\ \E i \in 2..(Len(output.t.kids[input.t.root]) - 1) :
          /\ output.t.kids[input.t.root][i] = output.node
          /\ DiffDelete \in DOMAIN output.t.lab[output.t.kids[input.t.root][i - 1]].attrib
          /\ input.position > 0

\* What the segments of a realigned diff come to in the annotated node: an
\* equal text as it is, a deleted or inserted placeholder as the placeholder
\* mark_diff gives for it, any other deleted or inserted text between the
\* placeholders of the wrapper, one after the other.
RECURSIVE Rendered(_, _)
Rendered(mk, diff) ==
    IF diff = <<>> THEN <<>>
    ELSE LET op == Head(diff)[1]
             text == Head(diff)[2]
             action == IF op = -1 THEN "delete" ELSE "insert"
             marked(g) == <<g.ph>> \o Rendered(g.mk, Tail(diff))
         IN IF op = 0 THEN text \o Rendered(mk, Tail(diff))
            ELSE IF IsPlaceholder(mk, text) THEN marked(mark_diff(mk, text[1], action))
            ELSE wrap_diff(text, action) \o Rendered(mk, Tail(diff))

\* C28: after UpdateTextIn or UpdateTextAfter has been applied without an
\* exception, the text (the tail) of the node holds every segment of the
\* realigned diff in diff order: equal text unmarked, deleted and inserted
\* text in its wrapper, a deleted or inserted placeholder as its marked
\* placeholder.
C28_NoSegmentDropped ==
    output.op = "UpdateText" /\ output.err = "" =>
        output.value =
            Rendered(TagMaker,
                     RealignPlaceholders(TagMaker, diff_main(input.left_value,
                                                             input.right_value)).new_diff)

\* C29: the realign pass over a character diff of two strings with
\* balanced, properly nested placeholders never fails its assertion: when a
\* close placeholder finds its open one on the stack, the op the open one
\* was pushed under is at most the op of the close one.
C29_AssertionHolds ==
    output.op = "_realign_placeholders" => output.err # "AssertionError"

\* C30: mark_diff on a placeholder of the forward pass completes without
\* an exception.  A close placeholder is returned as it is; otherwise the
\* placeholder returned stands for a marked copy of the element (a
\* formatting element with the diff attribute, another one with its text in
\* the wrapper) with the same kind and the same close placeholder.  The
\* entry of the placeholder given is as it was.
C30_MarkDiffCompletes ==
    output.op = "mark_diff" =>
        LET entry == input.mk.placeholder2tag[input.ph]
            copy_of(e) ==
                IF is_formatting(e)
                THEN [e EXCEPT !.lab.attrib = Assign(@, DiffFormatting(input.action), <<>>)]
                ELSE [e EXCEPT !.lab.text = wrap_diff(@, input.action)]
        IN /\ output.err = ""
           /\ maker.placeholder2tag[input.ph] = entry
           /\ IF entry.ttype = T_CLOSE THEN output.ph = input.ph /\ maker = input.mk
              ELSE /\ output.ph \in DOMAIN maker.placeholder2tag
                   /\ maker.placeholder2tag[output.ph] =
                          [element |-> copy_of(entry.element), ttype |-> entry.ttype,
                           close_ph |-> entry.close_ph]

====
